---- MODULE Spec2Model ----
(***************************************************************************)
(* Terminal markdown renderer of cokacdir (renderMarkdown and its helpers). *)
(* A line of text is a sequence of one-character strings; the line         *)
(* patterns of renderMarkdown are matched on those sequences.               *)
(***************************************************************************)
EXTENDS Integers, Sequences, FiniteSets, TLC

(* ------------------------------------------------------------------ *)
(* Bounds of the model                                                  *)
(* ------------------------------------------------------------------ *)

\* longest input, in lines
MaxLines == 4

\* the most calls of renderMarkdown followed one after another
MaxCalls == 3

\* the widest terminal of the calls that draw their width
MaxWidth == 46

\* longest text given to ProcessInlineText, in pieces of its pool
MaxPieces == 4

\* longest text given to calculateTextWidth alone, in characters
MaxGlyphs == 3

\* most columns of the tables given to BuildTable alone
MaxColumns == 2

\* the widest maxWidth given to BuildTable alone
MaxTableWidth == 24

(* ------------------------------------------------------------------ *)
(* Characters and character classes of the regular expressions          *)
(* ------------------------------------------------------------------ *)

\* \s of the line patterns, within the characters the model uses
Whitespace == {" ", "\t"}

\* [ \t] of the list patterns
SpaceTab == {" ", "\t"}

\* \d
Digits == {"0", "1", "2", "3", "4", "5", "6", "7", "8", "9"}

\* \w
WordChars ==
    Digits \cup {"_"} \cup
    {"a", "b", "c", "d", "e", "f", "g", "h", "i", "j", "k", "l", "m",
     "n", "o", "p", "q", "r", "s", "t", "u", "v", "w", "x", "y", "z",
     "A", "B", "C", "D", "E", "F", "G", "H", "I", "J", "K", "L", "M",
     "N", "O", "P", "Q", "R", "S", "T", "U", "V", "W", "X", "Y", "Z"}

\* [-*_] of the horizontal rule pattern
RuleChars == {"-", "*", "_"}

\* [-*+] of the unordered list pattern
BulletChars == {"-", "*", "+"}

\* the backtick character (a TLA+ string cannot hold one)
Backtick == "BACKTICK"

\* the fence characters of the code fence pattern
FenceChars == {Backtick, "~"}

\* the character of s at position i, "" past either end
CharAt(s, i) == IF i >= 1 /\ i <= Len(s) THEN s[i] ELSE ""

\* s.slice(i) with 1-based i
From(s, i) == SubSeq(s, i, Len(s))

\* the first position at or after i whose character is not in S (a greedy X*)
RECURSIVE SkipWhile(_, _, _)
SkipWhile(s, i, S) ==
    IF i <= Len(s) /\ s[i] \in S THEN SkipWhile(s, i + 1, S) ELSE i

\* the last position at or before i whose character is not in S
RECURSIVE SkipBack(_, _, _)
SkipBack(s, i, S) ==
    IF i >= 1 /\ s[i] \in S THEN SkipBack(s, i - 1, S) ELSE i

\* how many characters of s are in S
RECURSIVE CountIn(_, _)
CountIn(s, S) ==
    IF s = <<>> THEN 0
    ELSE (IF Head(s) \in S THEN 1 ELSE 0) + CountIn(Tail(s), S)

\* String.prototype.trim
Trim(s) ==
    LET a == SkipWhile(s, 1, Whitespace)
        b == SkipBack(s, Len(s), Whitespace)
    IN  IF a > b THEN <<>> ELSE SubSeq(s, a, b)

\* currentLine.trim().length === 0
IsBlank(s) == Trim(s) = <<>>

\* the first position of character c in s at or after i, 0 when there is none
RECURSIVE IndexOf(_, _, _)
IndexOf(s, c, i) ==
    IF i > Len(s) THEN 0
    ELSE IF s[i] = c THEN i
    ELSE IndexOf(s, c, i + 1)

\* String.prototype.split on one character
RECURSIVE Split(_, _)
Split(s, c) ==
    LET p == IndexOf(s, c, 1)
    IN  IF p = 0 THEN <<s>>
        ELSE <<SubSeq(s, 1, p - 1)>> \o Split(From(s, p + 1), c)

(* ------------------------------------------------------------------ *)
(* The line patterns                                                    *)
(* ------------------------------------------------------------------ *)

NoMatch == [ok |-> FALSE]

\* header: /^ *(#{1,4}) +(.*)/ ; g1 the hashes, g2 the text
headerMatch(line) ==
    LET i == SkipWhile(line, 1, {" "})
        h == SkipWhile(line, i, {"#"})
        t == SkipWhile(line, h, {" "})
    IN  IF h - i >= 1 /\ h - i <= 4 /\ t > h
        THEN [ok |-> TRUE, g1 |-> SubSeq(line, i, h - 1), g2 |-> From(line, t)]
        ELSE NoMatch

\* codeFence: /^ *(BACKTICK{3,}|~{3,}) *(\w*?) *$/ ; g1 the fence, g2 the language
fenceMatch(line) ==
    LET i == SkipWhile(line, 1, {" "})
        c == CharAt(line, i)
        j == SkipWhile(line, i, {c})
        k == SkipWhile(line, j, {" "})
        m == SkipWhile(line, k, WordChars)
        e == SkipWhile(line, m, {" "})
    IN  IF c \in FenceChars /\ j - i >= 3 /\ e = Len(line) + 1
        THEN [ok |-> TRUE, g1 |-> SubSeq(line, i, j - 1), g2 |-> SubSeq(line, k, m - 1)]
        ELSE NoMatch

\* unorderedList: /^([ \t]*)([-*+]) +(.*)/ ; g1 indent, g2 marker, g3 content
ulMatch(line) ==
    LET i == SkipWhile(line, 1, SpaceTab)
        t == SkipWhile(line, i + 1, {" "})
    IN  IF CharAt(line, i) \in BulletChars /\ t > i + 1
        THEN [ok |-> TRUE, g1 |-> SubSeq(line, 1, i - 1), g2 |-> <<line[i]>>,
              g3 |-> From(line, t)]
        ELSE NoMatch

\* orderedList: /^([ \t]*)(\d+)\. +(.*)/ ; g1 indent, g2 number, g3 content
olMatch(line) ==
    LET i == SkipWhile(line, 1, SpaceTab)
        d == SkipWhile(line, i, Digits)
        t == SkipWhile(line, d + 1, {" "})
    IN  IF d > i /\ CharAt(line, d) = "." /\ t > d + 1
        THEN [ok |-> TRUE, g1 |-> SubSeq(line, 1, i - 1), g2 |-> SubSeq(line, i, d - 1),
              g3 |-> From(line, t)]
        ELSE NoMatch

\* a rule pattern that allows no blank between the rule characters
hrMatchDense(line) ==
    /\ \A i \in 1..Len(line) : line[i] \in RuleChars
    /\ Len(line) >= 3

\* horizontalRule: /^ *([-*_] *){3,} *$/
hrMatch(line) ==
    /\ \A i \in 1..Len(line) : line[i] \in RuleChars \cup {" "}
    /\ CountIn(line, RuleChars) >= 3

\* tableRow: /^\s*\|(.+)\|\s*$/ ; g1 the text between the outer pipes
tableRowMatch(line) ==
    LET a == SkipWhile(line, 1, Whitespace)
        b == SkipBack(line, Len(line), Whitespace)
    IN  IF CharAt(line, a) = "|" /\ CharAt(line, b) = "|" /\ b - a >= 2
        THEN [ok |-> TRUE, g1 |-> SubSeq(line, a + 1, b - 1)]
        ELSE NoMatch

\* (:?-+:?) of the separator pattern at position p: the position after it, 0 on no match
SepCell(line, p) ==
    LET a == IF CharAt(line, p) = ":" THEN p + 1 ELSE p
        d == SkipWhile(line, a, {"-"})
    IN  IF d = a THEN 0
        ELSE IF CharAt(line, d) = ":" THEN d + 1 ELSE d

\* (\|\s*(:?-+:?)\s*)+\|?\s*$ of the separator pattern from position p, n groups matched so far
RECURSIVE SepGroups(_, _, _)
SepGroups(line, p, n) ==
    LET q == SkipWhile(line, p + 1, Whitespace)
        c == SepCell(line, q)
    IN  IF CharAt(line, p) = "|" /\ c # 0
        THEN SepGroups(line, SkipWhile(line, c, Whitespace), n + 1)
        ELSE /\ n >= 1
             /\ LET r == IF CharAt(line, p) = "|" THEN p + 1 ELSE p
                IN  SkipWhile(line, r, Whitespace) = Len(line) + 1

\* tableSeparator: /^\s*\|?\s*(:?-+:?)\s*(\|\s*(:?-+:?)\s*)+\|?\s*$/
tableSepMatch(line) ==
    LET a == SkipWhile(line, 1, Whitespace)
        b == IF CharAt(line, a) = "|" THEN a + 1 ELSE a
        q == SkipWhile(line, b, Whitespace)
        c == SepCell(line, q)
    IN  c # 0 /\ SepGroups(line, SkipWhile(line, c, Whitespace), 0)

\* tableRowMatch[1].split('|').map((cell) => cell.trim())
RowCells(g1) ==
    LET parts == Split(g1, "|")
    IN  [k \in 1..Len(parts) |-> Trim(parts[k])]

(* ------------------------------------------------------------------ *)
(* Blocks: the elements renderMarkdown pushes                           *)
(* ------------------------------------------------------------------ *)

\* Fields of a block. type, level, text, marker, indent, listType, lines,
\* language, headers and rows are the element's props; key is its React key
\* (the line index of an ln- or space- key, blocks.length of a table- key,
\* 0 for eof-code); inline says whether its text is handed to
\* ProcessInlineText. src (the first source line of the construct) and
\* covers (the source lines consumed into it) are bookkeeping of the model.
Blk ==
    [type |-> "None", src |-> 0, key |-> 0, level |-> 0, text |-> <<>>,
     marker |-> <<>>, indent |-> <<>>, listType |-> "", lines |-> <<>>,
     language |-> <<>>, headers |-> <<>>, rows |-> <<>>, inline |-> FALSE,
     covers |-> {}, width |-> 0]

\* <Box><Text wrap="wrap"><ProcessInlineText content={currentLine} /></Text></Box>
Paragraph(i, line) ==
    [Blk EXCEPT !.type = "Paragraph", !.src = i, !.key = i, !.text = line,
                !.inline = TRUE, !.covers = {i}]

\* <Box>{headerElement}</Box>
Header(i, level, headerText) ==
    [Blk EXCEPT !.type = "Header", !.src = i, !.key = i, !.level = level,
                !.text = headerText, !.inline = TRUE, !.covers = {i}]

\* the rule <Box><Text dimColor>...</Text></Box>, count columns wide
HorizontalRule(i, count) ==
    [Blk EXCEPT !.type = "HorizontalRule", !.src = i, !.key = i, !.covers = {i},
                !.width = count]

\* the spacer <Box height={SPACING.EMPTY_LINE} />
Spacer(i) ==
    [Blk EXCEPT !.type = "Spacer", !.src = i, !.key = i, !.covers = {i}]

\* BuildListItem: prefix from marker and listType, itemText through ProcessInlineText
BuildListItem(i, itemText, listType, marker, indentation) ==
    [Blk EXCEPT !.type = "ListItem", !.src = i, !.key = i, !.text = itemText,
                !.listType = listType, !.marker = marker, !.indent = indentation,
                !.inline = TRUE, !.covers = {i}]

\* BuildCodeBlock: lines.join('\n') in one Text, no ProcessInlineText
BuildCodeBlock(first, key, last, lines, language) ==
    [Blk EXCEPT !.type = "CodeBlock", !.src = first, !.key = key, !.lines = lines,
                !.language = language, !.inline = FALSE, !.covers = first..last]

\* BuildTable: header and cells through ProcessInlineText
BuildTable(first, key, consumed, columnHeaders, dataRows) ==
    [Blk EXCEPT !.type = "Table", !.src = first, !.key = key,
                !.headers = columnHeaders, !.rows = dataRows, !.inline = TRUE,
                !.covers = consumed]

(* ------------------------------------------------------------------ *)
(* Searching in a string                                                *)
(* ------------------------------------------------------------------ *)

\* the characters of pat stand in s from position p on
StartsAt(s, pat, p) ==
    /\ p >= 1
    /\ p + Len(pat) - 1 <= Len(s)
    /\ SubSeq(s, p, p + Len(pat) - 1) = pat

\* the first position at or after i where pat stands in s, 0 when there is none
RECURSIVE Find(_, _, _)
Find(s, pat, i) ==
    IF i + Len(pat) - 1 > Len(s) THEN 0
    ELSE IF StartsAt(s, pat, i) THEN i
    ELSE Find(s, pat, i + 1)

\* the first position at or after i whose character is in S (a greedy [^S]*)
RECURSIVE SkipUntil(_, _, _)
SkipUntil(s, i, S) ==
    IF i <= Len(s) /\ s[i] \notin S THEN SkipUntil(s, i + 1, S) ELSE i

\* String.prototype.startsWith, endsWith, includes
startsWith(s, pat) == StartsAt(s, pat, 1)
endsWith(s, pat) == StartsAt(s, pat, Len(s) - Len(pat) + 1)
includes(s, pat) == Find(s, pat, 1) # 0

\* s.slice(a, -b)
slice(s, a, b) == SubSeq(s, a + 1, Len(s) - b)

Max2(a, b) == IF a > b THEN a ELSE b
Min2(a, b) == IF a < b THEN a ELSE b

(* ------------------------------------------------------------------ *)
(* calculateTextWidth                                                   *)
(* ------------------------------------------------------------------ *)

\* the markers of the inline patterns
BoldMark == <<"*", "*">>
StarMark == <<"*">>
UnderscoreMark == <<"_">>
StrikeMark == <<"~", "~">>
CodeMark == <<Backtick>>
UnderlineOpen == <<"<", "u", ">">>
UnderlineClose == <<"<", "/", "u", ">">>
LinkOpen == <<"[">>
LinkMiddle == <<"]", "(">>
LinkClose == <<")">>
HttpPrefix == <<"h", "t", "t", "p", ":", "/", "/">>
HttpsPrefix == <<"h", "t", "t", "p", "s", ":", "/", "/">>

\* s.replace(/op(.*?)cl/g, '$1'): every leftmost pair op ... cl, the nearest
\* cl taken, loses its two markers; the scan goes on after the pair
RECURSIVE StripPairs(_, _, _)
StripPairs(s, op, cl) ==
    LET a == Find(s, op, 1)
        b == IF a = 0 THEN 0 ELSE Find(s, cl, a + Len(op))
    IN  IF b = 0 THEN s
        ELSE SubSeq(s, 1, a - 1) \o SubSeq(s, a + Len(op), b - 1)
             \o StripPairs(From(s, b + Len(cl)), op, cl)

\* the last [ of s at or before i that is followed by ]( and later by ), 0 when none
RECURSIVE LastLinkOpen(_, _)
LastLinkOpen(s, i) ==
    IF i < 1 THEN 0
    ELSE LET b == IF s[i] = "[" THEN Find(s, LinkMiddle, i + 1) ELSE 0
         IN  IF b # 0 /\ IndexOf(s, ")", b + 2) # 0 THEN i
             ELSE LastLinkOpen(s, i - 1)

\* the last position of character c in s at or before i, 0 when there is none
RECURSIVE LastIndexOf(_, _, _)
LastIndexOf(s, c, i) ==
    IF i < 1 THEN 0
    ELSE IF s[i] = c THEN i
    ELSE LastIndexOf(s, c, i - 1)

\* s.replace(/.*\[(.*?)\]\(.*\)/g, '$1'): the greedy .* on both sides takes
\* everything from the start of s to its last ), and leaves the label of the
\* last link
StripLink(s) ==
    LET a == LastLinkOpen(s, Len(s))
        b == Find(s, LinkMiddle, a + 1)
        c == LastIndexOf(s, ")", Len(s))
    IN  IF a = 0 THEN s
        ELSE SubSeq(s, a + 1, b - 1) \o From(s, c + 1)

\* the chain of replaces that makes plainText
StripMarkup(content) ==
    StripLink(
      StripPairs(
        StripPairs(
          StripPairs(
            StripPairs(
              StripPairs(
                StripPairs(content, BoldMark, BoldMark),
                StarMark, StarMark),
              UnderscoreMark, UnderscoreMark),
            StrikeMark, StrikeMark),
          CodeMark, CodeMark),
        UnderlineOpen, UnderlineClose))

\* the printable ASCII characters, from code 32 on
Ascii ==
    <<" ", "!", "\"", "#", "$", "%", "&", "'", "(", ")", "*", "+", ",", "-", ".", "/",
      "0", "1", "2", "3", "4", "5", "6", "7", "8", "9", ":", ";", "<", "=", ">", "?",
      "@", "A", "B", "C", "D", "E", "F", "G", "H", "I", "J", "K", "L", "M", "N", "O",
      "P", "Q", "R", "S", "T", "U", "V", "W", "X", "Y", "Z", "[", "\\", "]", "^", "_",
      Backtick, "a", "b", "c", "d", "e", "f", "g", "h", "i", "j", "k", "l", "m", "n", "o",
      "p", "q", "r", "s", "t", "u", "v", "w", "x", "y", "z", "{", "|", "}", "~">>

\* the characters beyond ASCII that the model uses, each written U+hex, with
\* its code point
CodePoints ==
    [c \in {"U+2500", "U+2502", "U+250C", "U+2510", "U+2514", "U+2518", "U+251C",
            "U+2524", "U+252C", "U+2534", "U+253C",
            "U+00E9", "U+10FF", "U+1100", "U+115F", "U+1160", "U+2329", "U+232A",
            "U+232B", "U+2E7F", "U+2E80", "U+303F", "U+3042", "U+4E2D", "U+A4CF",
            "U+A4D0", "U+ABFF", "U+AC00", "U+D7A3", "U+D7A4", "U+F8FF", "U+F900",
            "U+FAFF", "U+FB00", "U+FE0F", "U+FE10", "U+FE1F", "U+FE20", "U+FE2F",
            "U+FE30", "U+FE6F", "U+FE70", "U+FEFF", "U+FF00", "U+FF60", "U+FF61",
            "U+FFDF", "U+FFE0", "U+FFE6", "U+FFE7", "U+1F600", "U+20000"} |->
        CASE c = "U+00E9" -> 233
          [] c = "U+2500" -> 9472
          [] c = "U+2502" -> 9474
          [] c = "U+250C" -> 9484
          [] c = "U+2510" -> 9488
          [] c = "U+2514" -> 9492
          [] c = "U+2518" -> 9496
          [] c = "U+251C" -> 9500
          [] c = "U+2524" -> 9508
          [] c = "U+252C" -> 9516
          [] c = "U+2534" -> 9524
          [] c = "U+253C" -> 9532
          [] c = "U+10FF" -> 4351
          [] c = "U+1100" -> 4352
          [] c = "U+115F" -> 4447
          [] c = "U+1160" -> 4448
          [] c = "U+2329" -> 9001
          [] c = "U+232A" -> 9002
          [] c = "U+232B" -> 9003
          [] c = "U+2E7F" -> 11903
          [] c = "U+2E80" -> 11904
          [] c = "U+303F" -> 12351
          [] c = "U+3042" -> 12354
          [] c = "U+4E2D" -> 20013
          [] c = "U+A4CF" -> 42191
          [] c = "U+A4D0" -> 42192
          [] c = "U+ABFF" -> 44031
          [] c = "U+AC00" -> 44032
          [] c = "U+D7A3" -> 55203
          [] c = "U+D7A4" -> 55204
          [] c = "U+F8FF" -> 63743
          [] c = "U+F900" -> 63744
          [] c = "U+FAFF" -> 64255
          [] c = "U+FB00" -> 64256
          [] c = "U+FE0F" -> 65039
          [] c = "U+FE10" -> 65040
          [] c = "U+FE1F" -> 65055
          [] c = "U+FE20" -> 65056
          [] c = "U+FE2F" -> 65071
          [] c = "U+FE30" -> 65072
          [] c = "U+FE6F" -> 65135
          [] c = "U+FE70" -> 65136
          [] c = "U+FEFF" -> 65279
          [] c = "U+FF00" -> 65280
          [] c = "U+FF60" -> 65376
          [] c = "U+FF61" -> 65377
          [] c = "U+FFDF" -> 65503
          [] c = "U+FFE0" -> 65504
          [] c = "U+FFE6" -> 65510
          [] c = "U+FFE7" -> 65511
          [] c = "U+1F600" -> 128512
          [] c = "U+20000" -> 131072]

\* the code point of a character of the model
codePointAt(c) ==
    IF c \in DOMAIN CodePoints THEN CodePoints[c]
    ELSE IF c = "\t" THEN 9
    ELSE 31 + CHOOSE k \in 1..Len(Ascii) : Ascii[k] = c

\* char.charCodeAt(0) of one character met by for...of: the code unit, or the
\* high surrogate 0xD800 + ((cp - 0x10000) >> 10) of a character beyond U+FFFF
charCodeAt(c) ==
    LET cp == codePointAt(c)
    IN  IF cp >= 65536 THEN 55296 + ((cp - 65536) \div 1024) ELSE cp

\* GlyphWidth with every character one column wide
GlyphWidthNarrow(c) == 1

\* the columns of one character: 2 in the ranges of the test, 1 elsewhere
GlyphWidth(c) ==
    LET code == charCodeAt(c)
    IN  IF code >= 4352 /\
           (\/ code <= 4447
            \/ code = 9001
            \/ code = 9002
            \/ (code >= 11904 /\ code <= 42191 /\ code # 12351)
            \/ (code >= 44032 /\ code <= 55203)
            \/ (code >= 63744 /\ code <= 64255)
            \/ (code >= 65040 /\ code <= 65055)
            \/ (code >= 65072 /\ code <= 65135)
            \/ (code >= 65280 /\ code <= 65376)
            \/ (code >= 65504 /\ code <= 65510))
        THEN 2
        ELSE 1

\* the loop over plainText
RECURSIVE SumWidths(_)
SumWidths(plainText) ==
    IF plainText = <<>> THEN 0
    ELSE GlyphWidth(Head(plainText)) + SumWidths(Tail(plainText))

calculateTextWidth(content) == SumWidths(StripMarkup(content))

(* ------------------------------------------------------------------ *)
(* ProcessInlineText: the pattern and the formatting of one match       *)
(* ------------------------------------------------------------------ *)

MARKER_LENGTHS ==
    [BOLD |-> 2, ITALIC |-> 1, STRIKE |-> 2, CODE |-> 1,
     UNDERLINE_START |-> 3, UNDERLINE_END |-> 4]

\* the character class of the quick check /[*_~BACKTICK<[https?:]/
QuickCheckChars == {"*", "_", "~", Backtick, "<", "[", "h", "t", "p", "s", "?", ":"}

QuickCheck(content) == \E k \in 1..Len(content) : content[k] \in QuickCheckChars

\* op.*?cl at position p: the last position of the match, 0 when it fails
PairEnd(s, op, cl, p) ==
    LET q == IF StartsAt(s, op, p) THEN Find(s, cl, p + Len(op)) ELSE 0
    IN  IF q = 0 THEN 0 ELSE q + Len(cl) - 1

\* \[.*?\]\(.*?\) at position p
LinkEnd(s, p) ==
    LET b == IF StartsAt(s, LinkOpen, p) THEN Find(s, LinkMiddle, p + 1) ELSE 0
    IN  IF b = 0 THEN 0 ELSE IndexOf(s, ")", b + 2)

\* BACKTICK+.+?BACKTICK+ at position p: the whole opening run, the shortest
\* content, the whole closing run; with no backtick after the opening run, a
\* run of three or more matches alone (opener, one backtick of content, closer)
CodeEnd(s, p) ==
    LET after == SkipWhile(s, p, {Backtick})
        e == IndexOf(s, Backtick, after)
    IN  IF CharAt(s, p) # Backtick THEN 0
        ELSE IF e # 0 THEN SkipWhile(s, e, {Backtick}) - 1
        ELSE IF after - p >= 3 THEN after - 1
        ELSE 0

\* https?:\/\/\S+ at position p
UrlEnd(s, p) ==
    LET k == IF StartsAt(s, HttpsPrefix, p) THEN p + Len(HttpsPrefix)
             ELSE IF StartsAt(s, HttpPrefix, p) THEN p + Len(HttpPrefix)
             ELSE 0
        e == SkipUntil(s, k, Whitespace)
    IN  IF k = 0 \/ e = k THEN 0 ELSE e - 1

\* patternRegex at position p: the alternatives in their order, the first
\* that matches wins; the last position of the match, 0 when none matches
MatchEnd(s, p) ==
    LET bold == PairEnd(s, BoldMark, BoldMark, p)
        star == PairEnd(s, StarMark, StarMark, p)
        under == PairEnd(s, UnderscoreMark, UnderscoreMark, p)
        strike == PairEnd(s, StrikeMark, StrikeMark, p)
        link == LinkEnd(s, p)
        code == CodeEnd(s, p)
        uline == PairEnd(s, UnderlineOpen, UnderlineClose, p)
    IN  IF bold # 0 THEN bold
        ELSE IF star # 0 THEN star
        ELSE IF under # 0 THEN under
        ELSE IF strike # 0 THEN strike
        ELSE IF link # 0 THEN link
        ELSE IF code # 0 THEN code
        ELSE IF uline # 0 THEN uline
        ELSE UrlEnd(s, p)

\* the leftmost match starting at position p or later
RECURSIVE ExecFrom(_, _)
ExecFrom(s, p) ==
    IF p > Len(s) THEN [found |-> FALSE, index |-> 0, lastIndex |-> 0]
    ELSE IF MatchEnd(s, p) # 0
    THEN [found |-> TRUE, index |-> p - 1, lastIndex |-> MatchEnd(s, p)]
    ELSE ExecFrom(s, p + 1)

\* exec of a pattern without the g flag: the search starts at 0 whatever lastIndex is
execFromStart(s, from) == ExecFrom(s, 1)

\* patternRegex.exec(content) with patternRegex.lastIndex = from: index is
\* 0-based, lastIndex is the 0-based position after the match
exec(s, from) == ExecFrom(s, from + 1)

\* one <Text>: kind is the styling, fmt tells a key fmt-N from a key plain-N,
\* at is the N of the key, raw the slice of content the element stands for,
\* text the characters it shows
Element(kind, fmt, at, raw, text) ==
    [kind |-> kind, fmt |-> fmt, at |-> at, raw |-> raw, text |-> text]

\* <Text key=plain-N>{content.slice(...)}</Text>
PlainElement(at, text) == Element("Plain", FALSE, at, text, text)

\* matchedText.match(/^(BACKTICK+)(.+?)\1$/s)[2]: group 1 is the longest run
\* that opens matchedText, closes it, and leaves at least one character between
CodeContent(matchedText) ==
    LET n == SkipWhile(matchedText, 1, {Backtick}) - 1
        m == Len(matchedText) - SkipBack(matchedText, Len(matchedText), {Backtick})
        a == Min2(Min2(n, m), (Len(matchedText) - 1) \div 2)
    IN  SubSeq(matchedText, a + 1, Len(matchedText) - a)

\* matchedText.match(/\[(.*?)\]\((.*?)\)/): label, then the url in brackets
LinkText(matchedText) ==
    LET a == IndexOf(matchedText, "[", 1)
        b == Find(matchedText, LinkMiddle, a + 1)
        c == IndexOf(matchedText, ")", b + 2)
    IN  SubSeq(matchedText, a + 1, b - 1) \o <<" ", "(">>
        \o SubSeq(matchedText, b + 2, c - 1) \o <<")">>

\* ItalicContext that allows every italic
ItalicContextAny(prevChar, nextChar) == TRUE

\* !/\w/.test(prevChar) && !/\w/.test(nextChar)
ItalicContext(prevChar, nextChar) ==
    prevChar \notin WordChars /\ nextChar \notin WordChars

\* the element pushed for one match: the if / else-if chain, then
\* formattedElement ?? <Text key=fmt-N>{matchedText}</Text>
FormatMatch(content, index, lastIndex) ==
    LET matchedText == SubSeq(content, index + 1, lastIndex)
        prevChar == CharAt(content, index)
        nextChar == CharAt(content, lastIndex + 1)
        literal == Element("Literal", TRUE, index, matchedText, matchedText)
    IN  IF startsWith(matchedText, BoldMark) /\ endsWith(matchedText, BoldMark)
           /\ Len(matchedText) > MARKER_LENGTHS.BOLD * 2
        THEN Element("Bold", TRUE, index, matchedText,
                     slice(matchedText, MARKER_LENGTHS.BOLD, MARKER_LENGTHS.BOLD))
        ELSE IF Len(matchedText) > MARKER_LENGTHS.ITALIC * 2
                /\ (\/ startsWith(matchedText, StarMark) /\ endsWith(matchedText, StarMark)
                    \/ startsWith(matchedText, UnderscoreMark)
                       /\ endsWith(matchedText, UnderscoreMark))
        THEN IF ItalicContext(prevChar, nextChar)
             THEN Element("Italic", TRUE, index, matchedText,
                          slice(matchedText, MARKER_LENGTHS.ITALIC, MARKER_LENGTHS.ITALIC))
             ELSE literal
        ELSE IF startsWith(matchedText, StrikeMark) /\ endsWith(matchedText, StrikeMark)
                /\ Len(matchedText) > MARKER_LENGTHS.STRIKE * 2
        THEN Element("Strike", TRUE, index, matchedText,
                     slice(matchedText, MARKER_LENGTHS.STRIKE, MARKER_LENGTHS.STRIKE))
        ELSE IF startsWith(matchedText, CodeMark) /\ endsWith(matchedText, CodeMark)
                /\ Len(matchedText) > MARKER_LENGTHS.CODE
        THEN Element("Code", TRUE, index, matchedText, CodeContent(matchedText))
        ELSE IF startsWith(matchedText, LinkOpen) /\ includes(matchedText, LinkMiddle)
                /\ endsWith(matchedText, LinkClose)
        THEN Element("Link", TRUE, index, matchedText, LinkText(matchedText))
        ELSE IF startsWith(matchedText, UnderlineOpen)
                /\ endsWith(matchedText, UnderlineClose)
        THEN Element("Underline", TRUE, index, matchedText,
                     slice(matchedText, MARKER_LENGTHS.UNDERLINE_START,
                           MARKER_LENGTHS.UNDERLINE_END))
        ELSE IF startsWith(matchedText, HttpPrefix) \/ startsWith(matchedText, HttpsPrefix)
        THEN Element("Url", TRUE, index, matchedText, matchedText)
        ELSE literal

\* PlainBefore that never pushes
PlainBeforeNone(content, currentPosition, index) == <<>>

\* the plain text before a match, when there is some
PlainBefore(content, currentPosition, index) ==
    IF index > currentPosition
    THEN <<PlainElement(currentPosition, SubSeq(content, currentPosition + 1, index))>>
    ELSE <<>>

\* the remaining text after the last match, when there is some
PlainRest(content, currentPosition) ==
    IF currentPosition < Len(content)
    THEN <<PlainElement(currentPosition, From(content, currentPosition + 1))>>
    ELSE <<>>

\* the while loop from currentPosition on, then the remaining text
RECURSIVE ScanFrom(_, _, _)
ScanFrom(content, currentPosition, elements) ==
    LET matchResult == exec(content, currentPosition)
    IN  IF matchResult.found
        THEN ScanFrom(content, matchResult.lastIndex,
                      elements \o PlainBefore(content, currentPosition, matchResult.index)
                               \o <<FormatMatch(content, matchResult.index,
                                                 matchResult.lastIndex)>>)
        ELSE elements \o PlainRest(content, currentPosition)

\* <ProcessInlineText content={...} /> rendered inside another component
ProcessInlineText(content) ==
    IF ~QuickCheck(content) THEN <<PlainElement(0, content)>>
    ELSE ScanFrom(content, 0, <<>>)

\* what a sequence of elements shows
RECURSIVE Shown(_)
Shown(els) ==
    IF els = <<>> THEN <<>> ELSE Head(els).text \o Shown(Tail(els))

(* ------------------------------------------------------------------ *)
(* BuildTable: the widths of the columns and the cells                  *)
(* ------------------------------------------------------------------ *)

\* rowData[columnIndex] || ''
CellAt(rowData, columnIndex) ==
    IF columnIndex <= Len(rowData) THEN rowData[columnIndex] ELSE <<>>

\* Math.max(0, ...dataRows.map(row => calculateTextWidth(row[columnIndex] || '')))
RECURSIVE MaxDataWidth(_, _)
MaxDataWidth(dataRows, columnIndex) ==
    IF dataRows = <<>> THEN 0
    ELSE Max2(calculateTextWidth(CellAt(Head(dataRows), columnIndex)),
              MaxDataWidth(Tail(dataRows), columnIndex))

WidthPerColumn(columnHeaders, dataRows) ==
    [c \in 1..Len(columnHeaders) |->
        Max2(calculateTextWidth(columnHeaders[c]), MaxDataWidth(dataRows, c)) + 2]

\* widthPerColumn.reduce((sum, w) => sum + w + 1, 1)
RECURSIVE TotalRequiredWidth(_)
TotalRequiredWidth(widthPerColumn) ==
    IF widthPerColumn = <<>> THEN 1
    ELSE Head(widthPerColumn) + 1 + TotalRequiredWidth(Tail(widthPerColumn))

\* the bits of the fraction of a double
FractionBits == 52

RECURSIVE Pow2(_)
Pow2(e) == IF e = 0 THEN 1 ELSE 2 * Pow2(e - 1)

\* 2^e modulo t
RECURSIVE Pow2Mod(_, _)
Pow2Mod(e, t) == IF e = 0 THEN 1 % t ELSE (2 * Pow2Mod(e - 1, t)) % t

\* the least n >= from with m * 2^n >= t: the quotient m / t of 0 < m < t
\* lies in [2^-n, 2^(1-n))
RECURSIVE ShiftTo(_, _, _)
ShiftTo(m, t, from) == IF m * Pow2(from) >= t THEN from ELSE ShiftTo(m, t, from + 1)

\* the E >= from with 2^E < k <= 2^(E+1): every double just below k >= 1 lies
\* in [2^E, 2^(E+1))
RECURSIVE BinadeBelow(_, _)
BinadeBelow(k, from) == IF Pow2(from + 1) >= k THEN from ELSE BinadeBelow(k, from + 1)

\* Math.floor(w * (m / t)) in double arithmetic, for integers 0 < m < t and
\* w > 0 far below 2^53. The quotient is rounded to 53 significant bits; rho
\* is the remainder of that division, so the double is below m / t by
\* rho / (t * 2^(n + FractionBits)) when 2 * rho < t and above it otherwise
\* (rho = 0: exact). When w * m / t is no integer its distance to the next
\* integer, at least 1 / t, is far more than both roundings, and the floor is
\* the exact one. When w * m / t is an integer k and the quotient was rounded
\* down, the product is below k by w * rho / (t * 2^(n + FractionBits)) and is
\* rounded to the double just below k, whose floor is k - 1, exactly when that
\* is more than half the spacing 2^(E - FractionBits) of the doubles below k.
FloorScaled(w, m, t) ==
    LET n == ShiftTo(m, t, 1)
        rho == (m * Pow2Mod(n + FractionBits, t)) % t
        exact == (w * m) \div t
    IN  IF /\ (w * m) % t = 0
           /\ rho # 0
           /\ 2 * rho < t
           /\ 2 * w * rho > t * Pow2(BinadeBelow(exact, -1) + n)
        THEN exact - 1
        ELSE exact

\* Math.floor(w * shrinkRatio) with shrinkRatio = maxWidth / totalRequiredWidth
\* when the table is too wide, 1 otherwise
FinalWidths(widthPerColumn, maxWidth) ==
    LET total == TotalRequiredWidth(widthPerColumn)
    IN  [c \in 1..Len(widthPerColumn) |->
            IF total > maxWidth
            THEN FloorScaled(widthPerColumn[c], maxWidth, total)
            ELSE widthPerColumn[c]]

\* cellText.substring(0, n), on characters of one code unit each
substring(s, n) == SubSeq(s, 1, Min2(n, Len(s)))

Ellipsis == <<".", ".", ".">>

\* buildCell: the text shown and the spaces after it
buildCell(cellText, cellWidth) ==
    LET availableWidth == Max2(0, cellWidth - 2)
        actualWidth == calculateTextWidth(cellText)
        displayText == IF actualWidth > availableWidth
                       THEN substring(cellText, Max2(0, availableWidth - 3)) \o Ellipsis
                       ELSE cellText
        paddingRequired == Max2(0, availableWidth - calculateTextWidth(displayText))
    IN  [displayText |-> displayText, paddingRequired |-> paddingRequired,
         cellWidth |-> cellWidth]

\* buildTableRow: buildCell(cell || '', finalWidths[idx] || 0) for every cell
buildTableRow(rowCells, finalWidths) ==
    [idx \in 1..Len(rowCells) |->
        buildCell(rowCells[idx],
                  IF idx <= Len(finalWidths) THEN finalWidths[idx] ELSE 0)]

\* String.prototype.repeat
repeat(c, n) == [i \in 1..n |-> c]

\* Array.prototype.join
RECURSIVE join(_, _)
join(parts, sep) ==
    IF parts = <<>> THEN <<>>
    ELSE IF Len(parts) = 1 THEN Head(parts)
    ELSE Head(parts) \o sep \o join(Tail(parts), sep)

\* borderStyles: leftCorner, junction, rightCorner, line
borderStyles ==
    [top |-> [leftCorner |-> "U+250C", junction |-> "U+252C",
              rightCorner |-> "U+2510", line |-> "U+2500"],
     mid |-> [leftCorner |-> "U+251C", junction |-> "U+253C",
              rightCorner |-> "U+2524", line |-> "U+2500"],
     bottom |-> [leftCorner |-> "U+2514", junction |-> "U+2534",
                 rightCorner |-> "U+2518", line |-> "U+2500"]]

\* buildBorderLine: the text of the border at position top, mid or bottom
buildBorderLine(position, finalWidths) ==
    LET style == borderStyles[position]
        segments == [c \in 1..Len(finalWidths) |-> repeat(style.line, finalWidths[c])]
    IN  <<style.leftCorner>> \o join(segments, <<style.junction>>) \o <<style.rightCorner>>

\* the characters one cell puts on the line: what ProcessInlineText shows of
\* displayText, then the padding
CellLine(cell) ==
    Shown(ProcessInlineText(cell.displayText)) \o repeat(" ", cell.paddingRequired)

\* the characters of one row: a bar and a blank, the cells with blank, bar,
\* blank between them, a blank and a bar
RowLine(cells) ==
    <<"U+2502", " ">>
    \o join([idx \in 1..Len(cells) |-> CellLine(cells[idx])], <<" ", "U+2502", " ">>)
    \o <<" ", "U+2502">>

\* what BuildTableInternal renders: the header row and the data rows, and the
\* lines of the box from top to bottom
BuildTableInternal(columnHeaders, dataRows, maxWidth) ==
    LET finalWidths == FinalWidths(WidthPerColumn(columnHeaders, dataRows), maxWidth)
        header == buildTableRow(columnHeaders, finalWidths)
        rows == [r \in 1..Len(dataRows) |-> buildTableRow(dataRows[r], finalWidths)]
    IN  [finalWidths |-> finalWidths,
         header |-> header,
         rows |-> rows,
         lines |-> <<buildBorderLine("top", finalWidths), RowLine(header),
                     buildBorderLine("mid", finalWidths)>>
                   \o [r \in 1..Len(rows) |-> RowLine(rows[r])]
                   \o <<buildBorderLine("bottom", finalWidths)>>]

(* ------------------------------------------------------------------ *)
(* State of one call of renderMarkdown                                  *)
(* ------------------------------------------------------------------ *)

VARIABLES
    lineArray,            \* text.split(/\r?\n/)
    terminalWidth,        \* options.terminalWidth
    lineIndex,            \* the line forEach visits next, from 1
    pc,                   \* "loop" while forEach runs, "done" after the return,
                          \* "threw" after an exception left the call
    blocks,
    previousLineWasEmpty,
    codeBlockActive,
    codeBlockLines,
    codeBlockLanguage,    \* <<>> is null
    codeBlockFence,
    tableActive,
    tableHeaderCells,
    tableDataRows,
    codeBlockStart,       \* bookkeeping: the line of the fence that opened the code block
    opened,               \* bookkeeping: the lines at which a code block was opened
    tableStart,           \* bookkeeping: the header line of the active table
    tableLines,           \* bookkeeping: the lines consumed by the active table
    returned,             \* bookkeeping: text, width and result of the calls that returned
    content,              \* ProcessInlineText: the text of one block
    currentPosition,
    lastIndex,            \* patternRegex.lastIndex
    elements,
    ipc,                  \* "scan" while ProcessInlineText runs, "done" after its return
    call                  \* one call of calculateTextWidth or of BuildTable: arguments and result

vars ==
    <<lineArray, terminalWidth, lineIndex, pc, blocks, previousLineWasEmpty,
      codeBlockActive, codeBlockLines, codeBlockLanguage, codeBlockFence, tableActive,
      tableHeaderCells, tableDataRows, codeBlockStart, opened, tableStart,
      tableLines, returned, content, currentPosition, lastIndex, elements, ipc, call>>

inlineVars == <<content, currentPosition, lastIndex, elements, ipc>>

\* no call of calculateTextWidth or BuildTable
NoCall == [fn |-> "none", args |-> <<>>, ret |-> <<>>, done |-> FALSE]

\* a function called with args, before it returns
Called(fn, args) == [fn |-> fn, args |-> args, ret |-> <<>>, done |-> FALSE]

\* ProcessInlineText on text: its locals as declared
InlineStart(texts) ==
    /\ content \in texts
    /\ currentPosition = 0
    /\ lastIndex = 0
    /\ elements = <<>>
    /\ ipc = "scan"

\* ProcessInlineText not running
InlineIdle ==
    /\ content = <<>>
    /\ currentPosition = 0
    /\ lastIndex = 0
    /\ elements = <<>>
    /\ ipc = "idle"

codeVars ==
    <<codeBlockActive, codeBlockLines, codeBlockLanguage, codeBlockFence,
      codeBlockStart, opened>>

tableVars == <<tableActive, tableHeaderCells, tableDataRows, tableStart, tableLines>>

\* split of the empty text: one empty line
EmptyText == << <<>> >>

\* every text of 1..n lines drawn from pool
Texts(pool, n) == UNION {[1..k -> pool] : k \in 1..n}

\* const { terminalWidth = 80 } = options
DefaultWidth == 80

\* the locals of renderMarkdown as declared, for the texts and the widths given
InitCall(texts, widths) ==
    /\ lineArray \in texts
    /\ terminalWidth \in widths
    /\ returned = <<>>
    /\ lineIndex = 1
    /\ pc = "loop"
    /\ blocks = <<>>
    /\ previousLineWasEmpty = TRUE
    /\ codeBlockActive = FALSE
    /\ codeBlockLines = <<>>
    /\ codeBlockLanguage = <<>>
    /\ codeBlockFence = <<>>
    /\ tableActive = FALSE
    /\ tableHeaderCells = <<>>
    /\ tableDataRows = <<>>
    /\ codeBlockStart = 0
    /\ opened = {}
    /\ tableStart = 0
    /\ tableLines = {}
    /\ InlineIdle
    /\ call = NoCall

\* renderMarkdown not running
RenderIdle ==
    /\ lineArray = EmptyText
    /\ terminalWidth = DefaultWidth
    /\ returned = <<>>
    /\ lineIndex = 1
    /\ pc = "idle"
    /\ blocks = <<>>
    /\ previousLineWasEmpty = TRUE
    /\ codeBlockActive = FALSE
    /\ codeBlockLines = <<>>
    /\ codeBlockLanguage = <<>>
    /\ codeBlockFence = <<>>
    /\ tableActive = FALSE
    /\ tableHeaderCells = <<>>
    /\ tableDataRows = <<>>
    /\ codeBlockStart = 0
    /\ opened = {}
    /\ tableStart = 0
    /\ tableLines = {}

\* a call without options.terminalWidth, on a text of up to MaxLines lines of pool
InitWith(pool) == InitCall(Texts(pool, MaxLines), {DefaultWidth})

(* ------------------------------------------------------------------ *)
(* Decisions and helpers of the line loop                               *)
(* ------------------------------------------------------------------ *)

\* blocks and previousLineWasEmpty, as appendBlock sees them
Out == [blocks |-> blocks, prev |-> previousLineWasEmpty]

\* appendBlock: push and clear previousLineWasEmpty (every block built here is truthy)
appendBlock(out, block) ==
    [blocks |-> Append(out.blocks, block), prev |-> FALSE]

\* pushSpacer without the test of previousLineWasEmpty
pushSpacerAlways(out, i) ==
    [blocks |-> Append(out.blocks, Spacer(i)), prev |-> TRUE]

\* pushSpacer that leaves previousLineWasEmpty as it was
pushSpacerKeepFlag(out, i) ==
    IF ~out.prev
    THEN [blocks |-> Append(out.blocks, Spacer(i)), prev |-> out.prev]
    ELSE out

\* the blank branch: push a spacer unless previousLineWasEmpty
pushSpacer(out, i) ==
    IF ~out.prev
    THEN [blocks |-> Append(out.blocks, Spacer(i)), prev |-> TRUE]
    ELSE out

SetOut(out) ==
    /\ blocks' = out.blocks
    /\ previousLineWasEmpty' = out.prev

\* FenceCloses without the test of the fence character
FenceClosesAnyChar(fm, fence) ==
    /\ fm.ok
    /\ Len(fm.g1) >= Len(fence)

\* FenceCloses without the test of the fence length
FenceClosesAnyLength(fm, fence) ==
    /\ fm.ok
    /\ fm.g1[1] = fence[1]

\* FenceCloses that refuses a fence line with a language word
FenceClosesBare(fm, fence) ==
    /\ fm.ok
    /\ fm.g2 = <<>>
    /\ fm.g1[1] = fence[1]
    /\ Len(fm.g1) >= Len(fence)

\* the closing test inside a code block: same first character, at least as long
FenceCloses(fm, fence) ==
    /\ fm.ok
    /\ fm.g1[1] = fence[1]
    /\ Len(fm.g1) >= Len(fence)

\* TableStarts without the test of the next line
TableStartsAnyNext(lines, i) ==
    i + 1 <= Len(lines)

\* the lookahead of table start: a next line exists and matches tableSeparator
TableStarts(lines, i) ==
    /\ i + 1 <= Len(lines)
    /\ tableSepMatch(lines[i + 1])

\* CoerceCells without the cut
CoerceCellsPadOnly(cells, n) ==
    [k \in 1..(IF Len(cells) > n THEN Len(cells) ELSE n) |->
        IF k <= Len(cells) THEN cells[k] ELSE <<>>]

\* pad with '' up to n cells, then cut to n cells
CoerceCells(cells, n) ==
    [k \in 1..n |-> IF k <= Len(cells) THEN cells[k] ELSE <<>>]

\* TableFlushable without the test of the data rows
TableFlushableHeaderOnly(headerCells, dataRows) ==
    Len(headerCells) > 0

\* the flush test of a table
TableFlushable(headerCells, dataRows) ==
    Len(headerCells) > 0 /\ Len(dataRows) > 0

\* EofCodeBlock dropping a code block that buffered no line
EofCodeBlockNonEmpty(out) ==
    IF codeBlockActive /\ Len(codeBlockLines) > 0
    THEN appendBlock(out, BuildCodeBlock(codeBlockStart, 0, Len(lineArray),
                                         codeBlockLines, codeBlockLanguage))
    ELSE out

\* the code block pushed at end of input
EofCodeBlock(out) ==
    IF codeBlockActive
    THEN appendBlock(out, BuildCodeBlock(codeBlockStart, 0, Len(lineArray),
                                         codeBlockLines, codeBlockLanguage))
    ELSE out

\* Math.min(40, terminalWidth - 4)
RuleCap == 40

RuleCount(width) ==
    IF RuleCap < width - 4 THEN RuleCap ELSE width - 4

\* the table pushed at end of input
EofTable(out) ==
    IF tableActive /\ TableFlushable(tableHeaderCells, tableDataRows)
    THEN appendBlock(out, BuildTable(tableStart, Len(out.blocks), tableLines,
                                     tableHeaderCells, tableDataRows))
    ELSE out

(* ------------------------------------------------------------------ *)
(* Operations                                                           *)
(* ------------------------------------------------------------------ *)

\* what a call returned: null, or the fragment of blocks
Result(isNull, bs) ==
    [text |-> lineArray, width |-> terminalWidth, null |-> isNull, blocks |-> bs]

\* if (!text) return null
RenderEmpty ==
    /\ pc = "loop"
    /\ lineArray = EmptyText
    /\ pc' = "done"
    /\ returned' = Append(returned, Result(TRUE, blocks))
    /\ UNCHANGED <<lineArray, terminalWidth, lineIndex, blocks, previousLineWasEmpty,
                   codeVars, tableVars, inlineVars, call>>

\* one call of the forEach callback, on line lineIndex
ProcessLine ==
    /\ pc = "loop"
    /\ lineArray # EmptyText
    /\ lineIndex <= Len(lineArray)
    /\ LET currentLine == lineArray[lineIndex]
           fm  == fenceMatch(currentLine)
           hm  == headerMatch(currentLine)
           ul  == ulMatch(currentLine)
           ol  == olMatch(currentLine)
           hr  == hrMatch(currentLine)
           row == tableRowMatch(currentLine)
           sep == tableSepMatch(currentLine)
       IN
       IF codeBlockActive THEN
           \* inside code block
           IF FenceCloses(fm, codeBlockFence) THEN
               /\ SetOut(appendBlock(Out,
                      BuildCodeBlock(codeBlockStart, lineIndex, lineIndex,
                                     codeBlockLines, codeBlockLanguage)))
               /\ codeBlockActive' = FALSE
               /\ codeBlockLines' = <<>>
               /\ codeBlockLanguage' = <<>>
               /\ codeBlockFence' = <<>>
               /\ codeBlockStart' = 0
               /\ UNCHANGED <<pc, opened, tableVars>>
           ELSE
               /\ codeBlockLines' = Append(codeBlockLines, currentLine)
               /\ UNCHANGED <<pc, blocks, previousLineWasEmpty, codeBlockActive,
                              codeBlockLanguage, codeBlockFence, codeBlockStart,
                              opened, tableVars>>
       ELSE IF fm.ok THEN
           \* code block start
           /\ codeBlockActive' = TRUE
           /\ codeBlockFence' = fm.g1
           /\ codeBlockLanguage' = fm.g2
           /\ codeBlockStart' = lineIndex
           /\ opened' = opened \cup {lineIndex}
           /\ UNCHANGED <<pc, blocks, previousLineWasEmpty, codeBlockLines, tableVars>>
       ELSE IF row.ok /\ ~tableActive THEN
           \* table start detection
           IF TableStarts(lineArray, lineIndex) THEN
               /\ tableActive' = TRUE
               /\ tableHeaderCells' = RowCells(row.g1)
               /\ tableDataRows' = <<>>
               /\ tableStart' = lineIndex
               /\ tableLines' = {lineIndex}
               /\ UNCHANGED <<pc, blocks, previousLineWasEmpty, codeVars>>
           ELSE
               /\ SetOut(appendBlock(Out, Paragraph(lineIndex, currentLine)))
               /\ UNCHANGED <<pc, codeVars, tableVars>>
       ELSE IF tableActive /\ sep THEN
           \* table separator skip
           /\ tableLines' = tableLines \cup {lineIndex}
           /\ UNCHANGED <<pc, blocks, previousLineWasEmpty, codeVars, tableActive,
                          tableHeaderCells, tableDataRows, tableStart>>
       ELSE IF tableActive /\ row.ok THEN
           \* table data row
           /\ tableDataRows' = Append(tableDataRows,
                                      CoerceCells(RowCells(row.g1), Len(tableHeaderCells)))
           /\ tableLines' = tableLines \cup {lineIndex}
           /\ UNCHANGED <<pc, blocks, previousLineWasEmpty, codeVars, tableActive,
                          tableHeaderCells, tableStart>>
       ELSE IF tableActive /\ ~row.ok THEN
           \* table end, then the current line as plain text unless blank
           /\ LET o1 == IF TableFlushable(tableHeaderCells, tableDataRows)
                        THEN appendBlock(Out, BuildTable(tableStart, Len(blocks), tableLines,
                                                         tableHeaderCells, tableDataRows))
                        ELSE Out
                  o2 == IF ~IsBlank(currentLine)
                        THEN appendBlock(o1, Paragraph(lineIndex, currentLine))
                        ELSE o1
              IN  SetOut(o2)
           /\ tableActive' = FALSE
           /\ tableDataRows' = <<>>
           /\ tableHeaderCells' = <<>>
           /\ tableStart' = 0
           /\ tableLines' = {}
           /\ UNCHANGED <<pc, codeVars>>
       ELSE IF hr THEN
           \* horizontal rule: repeat throws RangeError on a negative count
           IF RuleCount(terminalWidth) < 0 THEN
               /\ pc' = "threw"
               /\ UNCHANGED <<blocks, previousLineWasEmpty, codeVars, tableVars>>
           ELSE
               /\ SetOut(appendBlock(Out, HorizontalRule(lineIndex, RuleCount(terminalWidth))))
               /\ UNCHANGED <<pc, codeVars, tableVars>>
       ELSE IF hm.ok THEN
           /\ SetOut(appendBlock(Out, Header(lineIndex, Len(hm.g1), hm.g2)))
           /\ UNCHANGED <<pc, codeVars, tableVars>>
       ELSE IF ul.ok THEN
           /\ SetOut(appendBlock(Out, BuildListItem(lineIndex, ul.g3, "ul", ul.g2, ul.g1)))
           /\ UNCHANGED <<pc, codeVars, tableVars>>
       ELSE IF ol.ok THEN
           /\ SetOut(appendBlock(Out, BuildListItem(lineIndex, ol.g3, "ol", ol.g2, ol.g1)))
           /\ UNCHANGED <<pc, codeVars, tableVars>>
       ELSE IF IsBlank(currentLine) /\ ~codeBlockActive THEN
           \* empty line
           /\ SetOut(pushSpacer(Out, lineIndex))
           /\ UNCHANGED <<pc, codeVars, tableVars>>
       ELSE
           \* plain text
           /\ SetOut(appendBlock(Out, Paragraph(lineIndex, currentLine)))
           /\ UNCHANGED <<pc, codeVars, tableVars>>
    /\ lineIndex' = lineIndex + 1
    /\ UNCHANGED <<lineArray, terminalWidth, returned, inlineVars, call>>

\* after the loop: the unclosed code block, then the unclosed table, then return
Finish ==
    /\ pc = "loop"
    /\ lineArray # EmptyText
    /\ lineIndex > Len(lineArray)
    /\ SetOut(EofTable(EofCodeBlock(Out)))
    /\ pc' = "done"
    /\ returned' = Append(returned, Result(FALSE, blocks'))
    /\ UNCHANGED <<lineArray, terminalWidth, lineIndex, codeVars, tableVars,
                   inlineVars, call>>

Next == RenderEmpty \/ ProcessLine \/ Finish

\* a declaration with an initializer that keeps what the binding held before
DeclaredOnce(initial, residue) == residue

\* let x = initial, run at every call: the value is initial, whatever an
\* earlier call left in its own binding of that name
Declared(initial, residue) == initial

\* the next call of renderMarkdown, after one returned: lines 563-591 run again
NewCall(texts, widths) ==
    /\ pc = "done"
    /\ Len(returned) < MaxCalls
    /\ lineArray' \in texts
    /\ terminalWidth' \in widths
    /\ lineIndex' = 1
    /\ pc' = "loop"
    /\ blocks' = Declared(<<>>, blocks)
    /\ previousLineWasEmpty' = Declared(TRUE, previousLineWasEmpty)
    /\ codeBlockActive' = Declared(FALSE, codeBlockActive)
    /\ codeBlockLines' = Declared(<<>>, codeBlockLines)
    /\ codeBlockLanguage' = Declared(<<>>, codeBlockLanguage)
    /\ codeBlockFence' = Declared(<<>>, codeBlockFence)
    /\ tableActive' = Declared(FALSE, tableActive)
    /\ tableHeaderCells' = Declared(<<>>, tableHeaderCells)
    /\ tableDataRows' = Declared(<<>>, tableDataRows)
    /\ codeBlockStart' = 0
    /\ opened' = {}
    /\ tableStart' = 0
    /\ tableLines' = {}
    /\ UNCHANGED <<returned, inlineVars, call>>

renderVars ==
    <<lineArray, terminalWidth, lineIndex, pc, blocks, previousLineWasEmpty,
      codeVars, tableVars, returned>>

\* ProcessInlineText without a pattern character: one <Text> of the content
InlinePlain ==
    /\ ipc = "scan"
    /\ ~QuickCheck(content)
    /\ elements' = <<PlainElement(0, content)>>
    /\ ipc' = "done"
    /\ UNCHANGED <<content, currentPosition, lastIndex, renderVars, call>>

\* one turn of the while loop: patternRegex.exec found a match
InlineMatch ==
    /\ ipc = "scan"
    /\ QuickCheck(content)
    /\ LET matchResult == exec(content, lastIndex)
       IN  /\ matchResult.found
           /\ elements' = elements
                            \o PlainBefore(content, currentPosition, matchResult.index)
                            \o <<FormatMatch(content, matchResult.index,
                                              matchResult.lastIndex)>>
           /\ currentPosition' = matchResult.lastIndex
           /\ lastIndex' = matchResult.lastIndex
    /\ UNCHANGED <<content, ipc, renderVars, call>>

\* patternRegex.exec returned null: the remaining text, then the return
InlineReturn ==
    /\ ipc = "scan"
    /\ QuickCheck(content)
    /\ ~exec(content, lastIndex).found
    /\ elements' = elements \o PlainRest(content, currentPosition)
    /\ lastIndex' = 0
    /\ ipc' = "done"
    /\ UNCHANGED <<content, currentPosition, renderVars, call>>

NextInline == InlinePlain \/ InlineMatch \/ InlineReturn

\* calculateTextWidth(content) called and returning
MeasureText ==
    /\ call.fn = "calculateTextWidth"
    /\ ~call.done
    /\ call' = [call EXCEPT !.ret = calculateTextWidth(call.args), !.done = TRUE]
    /\ UNCHANGED <<renderVars, inlineVars>>

NextMeasure == MeasureText

\* <BuildTable columnHeaders dataRows maxWidth /> rendered
RenderTable ==
    /\ call.fn = "BuildTable"
    /\ ~call.done
    /\ call' = [call EXCEPT
                   !.ret = BuildTableInternal(call.args.columnHeaders,
                                              call.args.dataRows, call.args.maxWidth),
                   !.done = TRUE]
    /\ UNCHANGED <<renderVars, inlineVars>>

NextTable == RenderTable

(* ------------------------------------------------------------------ *)
(* Inputs                                                               *)
(* ------------------------------------------------------------------ *)

L_Empty == <<>>
L_Spaces == <<" ", " ">>
L_Text == <<"x">>
L_Bold == <<"*", "*", "b", "*", "*">>
L_H1 == <<"#", " ", "T">>
L_H5 == <<"#", "#", "#", "#", "#", " ", "T">>
L_RowAB == <<"|", " ", "A", " ", "|", " ", "B", " ", "|">>
L_Sep == <<"|", " ", "-", " ", "|", " ", "-", " ", "|">>
L_SepBare == <<":", "-", "|", "-", ":">>
L_Row12 == <<"|", " ", "1", " ", "|", " ", "2", " ", "|">>
L_Row1 == <<"|", " ", "1", " ", "|">>
L_Row123 == <<"|", "1", "|", "2", "|", "3", "|">>
L_Fence3 == <<Backtick, Backtick, Backtick>>
L_Fence4 == <<Backtick, Backtick, Backtick, Backtick>>
L_Tilde3 == <<"~", "~", "~">>
L_FenceJs == <<Backtick, Backtick, Backtick, "j", "s">>
L_Rule == <<"-", "-", "-">>
L_Ul == <<"-", " ", "x">>
L_Ol == <<"1", ".", " ", "x">>

\* a mix of every kind of line
LinePool ==
    {L_Empty, L_Text, L_H1, L_RowAB, L_Sep, L_Row12, L_Fence3, L_Rule, L_Ul, L_Ol}

\* tables: rows of two, one and three cells, separators with and without outer pipes
TablePool ==
    {L_Empty, L_Text, L_H1, L_Fence3, L_RowAB, L_Sep, L_SepBare, L_Row12, L_Row1, L_Row123}

\* fences of both characters and lengths, with and without a language
FencePool ==
    {L_Empty, L_Bold, L_H1, L_RowAB, L_Sep, L_Row12, L_Fence3, L_Fence4, L_Tilde3, L_FenceJs}

\* blank lines of both kinds among lines that make paragraphs and other blocks
BlankPool == {L_Empty, L_Spaces, L_Text, L_RowAB, L_Sep, L_Row12, L_H1, L_Fence3}

\* headers of depth 1 and 5 among table lines, text and a fence
HeaderPool == {L_Empty, L_Text, L_H1, L_H5, L_RowAB, L_Sep, L_Row12, L_Fence3}

Init == InitWith(LinePool)
InitTable == InitWith(TablePool)
InitFence == InitWith(FencePool)
InitBlank == InitWith(BlankPool)
InitHeader == InitWith(HeaderPool)

\* rules among text and blank lines, at every width up to MaxWidth
RulePool == {L_Empty, L_Text, L_Rule}

InitRule == InitCall(Texts(RulePool, MaxLines), 1..MaxWidth)

\* texts that leave every kind of state behind: an open code block, an open
\* table, a trailing blank line, a rule, and the empty text
CallTexts ==
    {EmptyText, <<L_Text>>, <<L_Text, L_Empty>>, <<L_Fence3, L_Text>>,
     <<L_RowAB, L_Sep, L_Row12>>, <<L_Rule>>}

NarrowWidth == 20

CallWidths == {DefaultWidth, NarrowWidth}

InitCalls == InitCall(CallTexts, CallWidths)

\* calls of renderMarkdown one after another
NextCalls == Next \/ NewCall(CallTexts, CallWidths)

Spec == Init /\ [][Next]_vars
SpecRule == InitRule /\ [][Next]_vars
SpecCalls == InitCalls /\ [][NextCalls]_vars
SpecTable == InitTable /\ [][Next]_vars
SpecFence == InitFence /\ [][Next]_vars
SpecBlank == InitBlank /\ [][Next]_vars
SpecHeader == InitHeader /\ [][Next]_vars

(* ------------------------------------------------------------------ *)
(* Inputs of ProcessInlineText, calculateTextWidth and BuildTable       *)
(* ------------------------------------------------------------------ *)

RECURSIVE Concat(_)
Concat(pieces) ==
    IF pieces = <<>> THEN <<>> ELSE Head(pieces) \o Concat(Tail(pieces))

\* every text made of 0..n pieces of pool
Phrases(pool, n) == UNION {{Concat(f) : f \in [1..k -> pool]} : k \in 0..n}

P_A == <<"a">>
P_Space == <<" ">>
P_Dot == <<".">>
P_Link == <<"[", "a", "]", "(", "b", ")">>
P_LinkNoClose == <<"[", "a", "]", "(", "b">>
P_Url == <<"h", "t", "t", "p", ":", "/", "/", "x">>

\* the examples of the italic rule
T_FileName == <<"f", "i", "l", "e", "_", "n", "a", "m", "e", "_", "h", "e", "r", "e">>
T_TheWord == <<"t", "h", "e", " ", "_", "w", "o", "r", "d", "_", " ", "i", "s">>

\* markers of emphasis and code, whole links and urls among letters and spaces
InlinePool ==
    {StarMark, UnderscoreMark, CodeMark, P_A, P_Space, P_Link, P_Url}

\* the single delimiters among word and non-word characters
ItalicPool == {StarMark, UnderscoreMark, StrikeMark, P_A, P_Space, P_Dot}

\* the opener of every marker, a link cut short among them, and a letter
MalformedPool ==
    {StarMark, UnderscoreMark, StrikeMark, CodeMark, P_A, P_LinkNoClose, UnderlineOpen}

\* characters at both edges of every range of the width test, one below ASCII
\* 128, two beyond U+FFFF, and two markers
GlyphPool ==
    {"a", " ", "*", "_", "U+00E9", "U+10FF", "U+1100", "U+115F", "U+1160",
     "U+2329", "U+232B", "U+303F", "U+3042", "U+4E2D", "U+A4D0", "U+AC00",
     "U+D7A3", "U+D7A4", "U+FF00", "U+FF61", "U+FFE6", "U+1F600", "U+20000"}

\* cells as the parser leaves them (trimmed), of characters of one code unit
CellPool ==
    {<<"a", "b">>, <<"a", "b", "c", "d", "e", "f", "g", "h">>,
     <<"U+AC00", "U+4E2D", "U+3042", "U+FF00">>}

InitInlineWith(texts) == RenderIdle /\ InlineStart(texts) /\ call = NoCall

InitInline == InitInlineWith(Phrases(InlinePool, MaxPieces))
InitItalic == InitInlineWith(Phrases(ItalicPool, MaxPieces) \cup {T_FileName, T_TheWord})
InitMalformed == InitInlineWith(Phrases(MalformedPool, MaxPieces))

InitMeasure ==
    /\ RenderIdle
    /\ InlineIdle
    /\ call \in {Called("calculateTextWidth", t) :
                    t \in UNION {[1..k -> GlyphPool] : k \in 0..MaxGlyphs}}

\* tables of up to MaxColumns columns and one data row, at every maxWidth
InitTableRender ==
    /\ RenderIdle
    /\ InlineIdle
    /\ call \in UNION {
           {Called("BuildTable", [columnHeaders |-> h, dataRows |-> <<r>>, maxWidth |-> w]) :
                h \in [1..k -> CellPool], r \in [1..k -> CellPool], w \in 1..MaxTableWidth} :
           k \in 1..MaxColumns}

SpecInline == InitInline /\ [][NextInline]_vars
SpecItalic == InitItalic /\ [][NextInline]_vars
SpecMalformed == InitMalformed /\ [][NextInline]_vars

\* the delimiters of bold, italic and code among letters
LivePool == {StarMark, UnderscoreMark, CodeMark, P_A}

InitInlineLive == InitInlineWith(Phrases(LivePool, MaxPieces))

\* the call runs on: the while loop turns as long as exec finds a match, and
\* the function returns when it finds none
SpecInlineLive == InitInlineLive /\ [][NextInline]_vars /\ WF_vars(NextInline)
SpecMeasure == InitMeasure /\ [][NextMeasure]_vars
SpecTableRender == InitTableRender /\ [][NextTable]_vars

(* ------------------------------------------------------------------ *)
(* Vocabulary of the properties                                         *)
(* ------------------------------------------------------------------ *)

\* the forEach callback is about to run on line lineIndex
Stepping == pc = "loop" /\ lineArray # EmptyText /\ lineIndex <= Len(lineArray)

\* the line the callback is about to run on
Cur == lineArray[lineIndex]

\* the positions of the output
Positions == 1..Len(blocks)

\* the last block of a sequence of blocks
LastOf(bs) == bs[Len(bs)]

\* the lines the loop has visited
Visited == 1..(lineIndex - 1)

\* line j is a fence of the character of fence line i, at least as long
ValidCloser(j, i) ==
    LET c == fenceMatch(lineArray[j])
        o == fenceMatch(lineArray[i])
    IN  c.ok /\ o.ok /\ c.g1[1] = o.g1[1] /\ Len(c.g1) >= Len(o.g1)

\* how many members of S are at most i
Rank(S, i) == Cardinality({j \in S : j <= i})

(* ------------------------------------------------------------------ *)
(* C1                                                                   *)
(* ------------------------------------------------------------------ *)

\* C1: blocks are emitted in source order: whenever the first source line of
\* block X precedes the first source line of block Y, X precedes Y in blocks.
C1_SourceOrder ==
    \A a, b \in Positions : blocks[a].src < blocks[b].src => a < b

(* ------------------------------------------------------------------ *)
(* C2                                                                   *)
(* ------------------------------------------------------------------ *)

\* the block the Normal rules give a single line that is no fence, no row and not blank
NormalBlock(i, line) ==
    LET hm == headerMatch(line)
        ul == ulMatch(line)
        ol == olMatch(line)
    IN  IF hm.ok THEN Header(i, Len(hm.g1), hm.g2)
        ELSE IF hrMatch(line) THEN HorizontalRule(i, RuleCount(terminalWidth))
        ELSE IF ul.ok THEN BuildListItem(i, ul.g3, "ul", ul.g2, ul.g1)
        ELSE IF ol.ok THEN BuildListItem(i, ol.g3, "ol", ol.g2, ol.g1)
        ELSE Paragraph(i, line)

\* a table is active and the line met is non-blank, no row, no separator (and no fence)
TableEndingLine ==
    /\ Stepping
    /\ ~codeBlockActive
    /\ tableActive
    /\ ~IsBlank(Cur)
    /\ ~tableRowMatch(Cur).ok
    /\ ~tableSepMatch(Cur)
    /\ ~fenceMatch(Cur).ok

\* C2: a non-blank line that is neither row nor separator, met while a table is
\* active, ends the table and yields the block the Normal rules give that line
\* (Header, HorizontalRule, ListItem or Paragraph); it is never skipped.
C2_Reclassified ==
    [][TableEndingLine =>
          /\ ~tableActive'
          /\ Len(blocks') > Len(blocks)
          /\ LastOf(blocks') = NormalBlock(lineIndex, Cur)]_vars

(* ------------------------------------------------------------------ *)
(* C3                                                                   *)
(* ------------------------------------------------------------------ *)

\* a pipe-delimited row is met with neither a table nor a code block active
RowInNormal ==
    /\ Stepping
    /\ ~codeBlockActive
    /\ ~tableActive
    /\ tableRowMatch(Cur).ok

\* a next line exists and matches the separator pattern
SeparatorFollows ==
    /\ lineIndex < Len(lineArray)
    /\ tableSepMatch(lineArray[lineIndex + 1])

\* the type, headers and rows of each block
Shape(bs) == [p \in 1..Len(bs) |-> <<bs[p].type, bs[p].headers, bs[p].rows, bs[p].text>>]

\* C3: with no table active, a row line starts a table with its trimmed cells
\* as headers if and only if a next line exists and matches the separator
\* pattern; otherwise it is emitted as exactly one Paragraph. The three lines
\* | A | B |, | - | - |, | 1 | 2 | yield one Table([A,B], [[1,2]]); the header
\* line alone, or followed by a line that is no separator, yields a Paragraph.
C3_TableRecognition ==
    /\ [][RowInNormal =>
            IF SeparatorFollows
            THEN /\ tableActive'
                 /\ tableHeaderCells' = RowCells(tableRowMatch(Cur).g1)
                 /\ tableDataRows' = <<>>
                 /\ blocks' = blocks
            ELSE /\ ~tableActive'
                 /\ blocks' = Append(blocks, Paragraph(lineIndex, Cur))]_vars
    /\ [](pc = "done" /\ lineArray = <<L_RowAB, L_Sep, L_Row12>> =>
            Shape(blocks) =
                << <<"Table", << <<"A">>, <<"B">> >>, << << <<"1">>, <<"2">> >> >>, <<>> >> >>)
    /\ [](pc = "done" /\ lineArray = <<L_RowAB>> =>
            Shape(blocks) = << <<"Paragraph", <<>>, <<>>, L_RowAB>> >>)
    /\ [](pc = "done" /\ lineArray = <<L_RowAB, L_Text>> =>
            Shape(blocks) = << <<"Paragraph", <<>>, <<>>, L_RowAB>>,
                               <<"Paragraph", <<>>, <<>>, L_Text>> >>)

\* the three-line table of C3 has been rendered
C3_Witness ==
    /\ pc = "done"
    /\ lineArray = <<L_RowAB, L_Sep, L_Row12>>
    /\ Len(blocks) = 1
    /\ blocks[1].type = "Table"

(* ------------------------------------------------------------------ *)
(* C4                                                                   *)
(* ------------------------------------------------------------------ *)

\* the data-row lines among the lines a table consumed: all but its header and separators
DataLines(first, consumed) ==
    {i \in consumed \ {first} : ~tableSepMatch(lineArray[i])}

\* cells is row coerced to n cells: its first n cells, then empty cells
CoercedTo(cells, row, n) ==
    /\ Len(cells) = n
    /\ \A k \in 1..n : cells[k] = IF k <= Len(row) THEN row[k] ELSE <<>>

\* every data-row line among consumed is one row of rows, in order, coerced to n cells
RowsCoerced(first, consumed, rows, n) ==
    LET D == DataLines(first, consumed)
    IN  /\ Len(rows) = Cardinality(D)
        /\ \A i \in D :
              CoercedTo(rows[Rank(D, i)], RowCells(tableRowMatch(lineArray[i]).g1), n)

\* C4: in every emitted Table (and in the table being collected) every data
\* row has exactly as many cells as the header: a shorter row is padded at the
\* end with empty cells, a longer one keeps its first header-count cells, and
\* every row line met while the table is active is one of its rows.
C4_CellCoercion ==
    /\ \A p \in Positions :
          blocks[p].type = "Table" =>
              RowsCoerced(blocks[p].src, blocks[p].covers, blocks[p].rows,
                          Len(blocks[p].headers))
    /\ tableActive =>
          RowsCoerced(tableStart, tableLines, tableDataRows, Len(tableHeaderCells))

\* a table of two columns was emitted with a padded and a truncated row
C4_Witness ==
    /\ pc = "done"
    /\ lineArray = <<L_RowAB, L_Sep, L_Row1, L_Row123>>
    /\ Len(blocks) = 1
    /\ blocks[1].rows = << << <<"1">>, <<>> >>, << <<"1">>, <<"2">> >> >>

(* ------------------------------------------------------------------ *)
(* C5                                                                   *)
(* ------------------------------------------------------------------ *)

\* the positions of bs holding a Table that began at line first
TablesFrom(bs, first) ==
    {p \in 1..Len(bs) : bs[p].type = "Table" /\ bs[p].src = first}

\* no block of bs holds line i
Unheld(bs, i) == \A p \in 1..Len(bs) : i \notin bs[p].covers

\* the active table is ended by a line that is no row, no separator and no fence
TableEnds ==
    /\ Stepping
    /\ ~codeBlockActive
    /\ tableActive
    /\ ~tableRowMatch(Cur).ok
    /\ ~tableSepMatch(Cur)
    /\ ~fenceMatch(Cur).ok

\* C5: a table ended by a non-table line or by end of input is emitted exactly
\* when it has collected at least one data row: every emitted Table has >= 1
\* data row, and a header with zero data rows yields no block (the header line
\* is held by no emitted block).
C5_TableFlush ==
    /\ [](\A p \in Positions : blocks[p].type = "Table" => Len(blocks[p].rows) >= 1)
    /\ [][TableEnds =>
            IF Len(tableDataRows) >= 1
            THEN /\ Cardinality(TablesFrom(blocks', tableStart)) = 1
                 /\ \A p \in TablesFrom(blocks', tableStart) :
                       blocks'[p].rows = tableDataRows
            ELSE /\ TablesFrom(blocks', tableStart) = {}
                 /\ Unheld(blocks', tableStart)]_vars
    /\ [](pc = "done" /\ tableActive =>
            IF Len(tableDataRows) >= 1
            THEN /\ Cardinality(TablesFrom(blocks, tableStart)) = 1
                 /\ \A p \in TablesFrom(blocks, tableStart) :
                       blocks[p].rows = tableDataRows
            ELSE /\ TablesFrom(blocks, tableStart) = {}
                 /\ Unheld(blocks, tableStart))

\* a header and separator with no data row were ended by a text line and dropped
C5_Witness ==
    /\ pc = "done"
    /\ lineArray = <<L_RowAB, L_Sep, L_Text>>
    /\ Shape(blocks) = << <<"Paragraph", <<>>, <<>>, L_Text>> >>

(* ------------------------------------------------------------------ *)
(* C6                                                                   *)
(* ------------------------------------------------------------------ *)

\* the positions of the output holding a CodeBlock opened at line i
CodeBlocksFrom(i) ==
    {p \in Positions : blocks[p].type = "CodeBlock" /\ blocks[p].src = i}

\* visited line j is the first valid closing fence after the fence opened at line i
FirstCloser(i, j) ==
    /\ i \in opened
    /\ j \in Visited
    /\ j > i
    /\ ValidCloser(j, i)
    /\ \A m \in (i + 1)..(j - 1) : ~ValidCloser(m, i)

\* C6: an opening fence at line i, then k lines none of which is a valid
\* closing fence, then a closing fence at line j yield exactly one CodeBlock,
\* holding exactly lines i+1..j-1 in order and unchanged; its text is not
\* inline-tokenized and no line inside it begins or joins any other block.
C6_FenceRoundTrip ==
    \A i, j \in 1..Len(lineArray) :
        FirstCloser(i, j) =>
            /\ Cardinality(CodeBlocksFrom(i)) = 1
            /\ \A p \in CodeBlocksFrom(i) :
                  /\ blocks[p].lines = SubSeq(lineArray, i + 1, j - 1)
                  /\ ~blocks[p].inline
                  /\ blocks[p].covers = i..j
            /\ \A q \in Positions \ CodeBlocksFrom(i) :
                  blocks[q].covers \cap (i..j) = {}
            /\ tableLines \cap (i..j) = {}

\* a code block of two lines, one of them with inline markers and one a fence
\* of the other character, was closed and emitted unchanged
C6_Witness ==
    /\ lineArray = <<L_Fence3, L_Bold, L_Tilde3, L_Fence3>>
    /\ pc = "done"
    /\ Len(blocks) = 1
    /\ blocks[1].type = "CodeBlock"
    /\ blocks[1].lines = <<L_Bold, L_Tilde3>>

(* ------------------------------------------------------------------ *)
(* C7                                                                   *)
(* ------------------------------------------------------------------ *)

\* the code block opened at line i is still open at the end of the input
OpenAtEnd(i) ==
    /\ i \in opened
    /\ \A m \in (i + 1)..Len(lineArray) : ~ValidCloser(m, i)

\* C7: if the input ends while a code block is open, exactly one CodeBlock is
\* emitted for it, holding every line after the opening fence (possibly none)
\* with the language of the opening fence.
C7_EofCodeBlock ==
    \A i \in 1..Len(lineArray) :
        pc = "done" /\ OpenAtEnd(i) =>
            /\ Cardinality(CodeBlocksFrom(i)) = 1
            /\ \A p \in CodeBlocksFrom(i) :
                  /\ blocks[p].lines = SubSeq(lineArray, i + 1, Len(lineArray))
                  /\ blocks[p].language = fenceMatch(lineArray[i]).g2

\* the input ended right after an opening fence with a language,
\* and an empty CodeBlock of that language was emitted
C7_Witness ==
    /\ pc = "done"
    /\ lineArray = <<L_H1, L_FenceJs>>
    /\ Len(blocks) = 2
    /\ blocks[2].type = "CodeBlock"
    /\ blocks[2].lines = <<>>
    /\ blocks[2].language = <<"j", "s">>

(* ------------------------------------------------------------------ *)
(* C8                                                                   *)
(* ------------------------------------------------------------------ *)

\* C8: when the lines strictly between the source lines of two Paragraph
\* blocks are N >= 1 blank (empty or whitespace-only) lines, exactly one block
\* lies between the two Paragraphs and it is a Spacer.
C8_BlankCollapsing ==
    \A a, b \in Positions :
        /\ blocks[a].type = "Paragraph"
        /\ blocks[b].type = "Paragraph"
        /\ blocks[a].src + 1 < blocks[b].src
        /\ \A m \in (blocks[a].src + 1)..(blocks[b].src - 1) : IsBlank(lineArray[m])
        => /\ b = a + 2
           /\ blocks[a + 1].type = "Spacer"

\* two paragraphs separated by an empty and a whitespace-only line gave
\* Paragraph, Spacer, Paragraph
C8_Witness ==
    /\ pc = "done"
    /\ lineArray = <<L_Text, L_Empty, L_Spaces, L_Text>>
    /\ Len(blocks) = 3
    /\ blocks[2].type = "Spacer"

(* ------------------------------------------------------------------ *)
(* C9                                                                   *)
(* ------------------------------------------------------------------ *)

\* the positions of the output whose block holds line i
Holders(i) == {p \in Positions : i \in blocks[p].covers}

\* C9: when the render is done, every non-blank line is held by exactly one
\* block, and the lines held by the blocks, read in output order, are in their
\* original order: no non-blank line is lost, duplicated or moved.
C9_ContentPreservation ==
    pc = "done" =>
        /\ \A i \in 1..Len(lineArray) :
              ~IsBlank(lineArray[i]) => Cardinality(Holders(i)) = 1
        /\ \A p, q \in Positions :
              p < q => \A i \in blocks[p].covers, j \in blocks[q].covers : i < j

(* ------------------------------------------------------------------ *)
(* C10                                                                  *)
(* ------------------------------------------------------------------ *)

\* the number of hashes the line begins with
HashRun(line) == SkipWhile(line, 1, {"#"}) - 1

\* the line after its first n characters and the spaces that follow them
RestAfter(line, n) == From(line, SkipWhile(line, n + 1, {" "}))

\* C10: a line of 1 to 4 hashes followed by at least one space, met outside a
\* code block, yields a Header whose level is the hash count and whose text is
\* the rest of the line; a line beginning with 5 or more hashes yields a
\* Paragraph holding the whole raw line.
C10_HeaderLevels ==
    [][Stepping /\ ~codeBlockActive /\ HashRun(Cur) >= 1 =>
          /\ Len(blocks') > Len(blocks)
          /\ LastOf(blocks').src = lineIndex
          /\ IF HashRun(Cur) <= 4 /\ CharAt(Cur, HashRun(Cur) + 1) = " "
             THEN /\ LastOf(blocks').type = "Header"
                  /\ LastOf(blocks').level = HashRun(Cur)
                  /\ LastOf(blocks').text = RestAfter(Cur, HashRun(Cur))
             ELSE /\ LastOf(blocks').type = "Paragraph"
                  /\ LastOf(blocks').text = Cur]_vars

(* ------------------------------------------------------------------ *)
(* C11                                                                  *)
(* ------------------------------------------------------------------ *)

\* the source slices of a sequence of elements, one after another
RECURSIVE Slices(_)
Slices(els) ==
    IF els = <<>> THEN <<>> ELSE Head(els).raw \o Slices(Tail(els))

\* ProcessInlineText has returned
Tokenized == ipc = "done"

\* C11: the elements are ordered, non-overlapping and fully covering: each
\* starts where the one before it ends and is the slice of the input at its
\* place, all of them together are the input, and a plain element holds no
\* position at which the pattern matches.
C11_Coverage ==
    /\ \A k \in 1..Len(elements) :
          /\ elements[k].at = Len(Slices(SubSeq(elements, 1, k - 1)))
          /\ elements[k].raw =
                 SubSeq(content, elements[k].at + 1,
                        elements[k].at + Len(elements[k].raw))
          /\ ~elements[k].fmt =>
                 \A q \in (elements[k].at + 1)..(elements[k].at + Len(elements[k].raw)) :
                    MatchEnd(content, q) = 0
    /\ Slices(elements) = SubSeq(content, 1, currentPosition)
       \/ Tokenized
    /\ Tokenized => Slices(elements) = content

\* plain text, a link and a url were cut from one text
C11_Witness ==
    /\ Tokenized
    /\ content = P_A \o P_Link \o P_Url
    /\ Len(elements) = 3
    /\ elements[1].kind = "Plain"
    /\ elements[2].kind = "Link"
    /\ elements[3].kind = "Url"
    /\ elements[3].at = 7

(* ------------------------------------------------------------------ *)
(* C12                                                                  *)
(* ------------------------------------------------------------------ *)

\* element e is a match between two single delimiters * or _: not empty, the
\* delimiter nowhere inside
SingleDelimited(e) ==
    /\ e.fmt
    /\ Len(e.raw) > 2
    /\ \E d \in {"*", "_"} :
          /\ e.raw[1] = d
          /\ e.raw[Len(e.raw)] = d
          /\ \A j \in 2..(Len(e.raw) - 1) : e.raw[j] # d

\* no word character stands right before the opener of e or right after its closer
FreeStanding(e) ==
    /\ CharAt(content, e.at) \notin WordChars
    /\ CharAt(content, e.at + Len(e.raw) + 1) \notin WordChars

\* C12: a candidate between single * or single _ is Italic, showing what is
\* between the delimiters, if and only if no word character stands right
\* before its opener or right after its closer; otherwise it is left literal,
\* delimiters included. file_name_here has no italic, the _word_ is has
\* Italic(word).
C12_ItalicRule ==
    /\ \A k \in 1..Len(elements) :
          SingleDelimited(elements[k]) =>
             IF FreeStanding(elements[k])
             THEN /\ elements[k].kind = "Italic"
                  /\ elements[k].text = SubSeq(elements[k].raw, 2, Len(elements[k].raw) - 1)
             ELSE /\ elements[k].kind = "Literal"
                  /\ elements[k].text = elements[k].raw
    /\ Tokenized /\ content = T_FileName =>
          \A k \in 1..Len(elements) : elements[k].kind # "Italic"
    /\ Tokenized /\ content = T_TheWord =>
          /\ Len(elements) = 3
          /\ elements[2].kind = "Italic"
          /\ elements[2].text = <<"w", "o", "r", "d">>

\* the candidate _name_ of file_name_here, between word characters, was left literal
C12_Witness ==
    /\ Tokenized
    /\ content = T_FileName
    /\ Len(elements) = 3
    /\ SingleDelimited(elements[2])
    /\ ~FreeStanding(elements[2])
    /\ elements[2].kind = "Literal"

(* ------------------------------------------------------------------ *)
(* C13                                                                  *)
(* ------------------------------------------------------------------ *)

\* the characters the markers are made of
MarkerChars == {"*", "_", "~", Backtick, "[", "]", "(", ")", "<", ">"}

\* the openers: bold, italic, strikethrough, underline, a link without its
\* closing bracket, and inline code of 1..n backticks
Openers(n) ==
    {BoldMark, StarMark, UnderscoreMark, StrikeMark, UnderlineOpen, P_LinkNoClose}
    \cup {[j \in 1..k |-> Backtick] : k \in 1..n}

MarkerFree(s) == \A k \in 1..Len(s) : s[k] \notin MarkerChars

\* s is one opener among text without marker characters: the opener has no closer
Unterminated(s) ==
    \E o \in Openers(Len(s)) : \E i \in 1..Len(s) :
        /\ StartsAt(s, o, i)
        /\ MarkerFree(SubSeq(s, 1, i - 1))
        /\ MarkerFree(From(s, i + Len(o)))

\* C13: for a text with an unterminated marker, every element is unstyled
\* (plain or literal) and the elements show the text unchanged, marker
\* characters included.
C13_MalformedLiteral ==
    Tokenized /\ Unterminated(content) =>
        /\ \A k \in 1..Len(elements) : elements[k].kind \in {"Plain", "Literal"}
        /\ Shown(elements) = content

(* ------------------------------------------------------------------ *)
(* C14                                                                  *)
(* ------------------------------------------------------------------ *)

\* the code points two columns wide
WideCodePoints ==
    (4352..4447) \cup {9001, 9002} \cup ((11904..42191) \ {12351})
    \cup (44032..55203) \cup (63744..64255) \cup (65040..65055)
    \cup (65072..65135) \cup (65280..65376) \cup (65504..65510)

\* the columns a text without markers takes on the terminal
RECURSIVE DisplayWidth(_)
DisplayWidth(s) ==
    IF s = <<>> THEN 0
    ELSE (IF codePointAt(Head(s)) \in WideCodePoints THEN 2 ELSE 1)
         + DisplayWidth(Tail(s))

\* BuildTable was rendered
TableRendered == call.fn = "BuildTable" /\ call.done

\* the cells of a rendered table, header row and data rows
RenderedCells ==
    {call.ret.header[c] : c \in 1..Len(call.ret.header)}
    \cup UNION {{call.ret.rows[r][c] : c \in 1..Len(call.ret.rows[r])} :
                  r \in 1..Len(call.ret.rows)}

\* C14: the text shown in every cell, truncated with its ellipsis or not, is
\* at most as wide as the inner width of its column (final width minus 2).
C14_CellFits ==
    TableRendered =>
        \A cell \in RenderedCells :
            DisplayWidth(cell.displayText) <= Max2(0, cell.cellWidth - 2)

(* ------------------------------------------------------------------ *)
(* C15                                                                  *)
(* ------------------------------------------------------------------ *)

\* the positions of the output holding a HorizontalRule
Rules == {p \in Positions : blocks[p].type = "HorizontalRule"}

\* C15: for every positive integer width, renderMarkdown raises no error on a
\* horizontal-rule line and the rule it renders is exactly min(40, width - 4)
\* columns wide.
C15_RuleReturns ==
    /\ pc # "threw"
    /\ \A p \in Rules :
          blocks[p].width = (IF 40 < terminalWidth - 4 THEN 40 ELSE terminalWidth - 4)

(* ------------------------------------------------------------------ *)
(* C16                                                                  *)
(* ------------------------------------------------------------------ *)

\* calculateTextWidth has returned
Measured == call.fn = "calculateTextWidth" /\ call.done

\* s holds no character that opens a marker
NoMarkup(s) == \A k \in 1..Len(s) : s[k] \notin {"*", "_", "~", Backtick, "<", "["}

\* C16: the width of a string without markup markers is the sum of 2 for
\* every character in the wide ranges and 1 for every other character.
C16_WideGlyphWidth ==
    Measured /\ NoMarkup(call.args) => call.ret = DisplayWidth(call.args)

\* a letter, a Hangul syllable and a CJK ideograph measured 5 columns
C16_Witness ==
    /\ Measured
    /\ call.args = <<"a", "U+AC00", "U+4E2D">>
    /\ call.ret = 5

(* ------------------------------------------------------------------ *)
(* C17                                                                  *)
(* ------------------------------------------------------------------ *)

\* a call is about to start its loop
Starting == pc = "loop" /\ lineIndex = 1

\* C17: two calls with the same text and width return the same output,
\* whatever calls came before or between them, and every call starts with
\* the parser state at its initial values.
C17_Purity ==
    /\ \A a, b \in 1..Len(returned) :
          returned[a].text = returned[b].text /\ returned[a].width = returned[b].width
              => /\ returned[a].null = returned[b].null
                 /\ returned[a].blocks = returned[b].blocks
    /\ Starting =>
          /\ blocks = <<>>
          /\ previousLineWasEmpty
          /\ ~codeBlockActive
          /\ codeBlockLines = <<>>
          /\ codeBlockLanguage = <<>>
          /\ codeBlockFence = <<>>
          /\ ~tableActive
          /\ tableHeaderCells = <<>>
          /\ tableDataRows = <<>>

\* the same text and width were rendered twice, with a call that left a code
\* block open between them
C17_Witness ==
    /\ Len(returned) = 3
    /\ returned[1].text = <<L_Text, L_Empty>>
    /\ returned[2].text = <<L_Fence3, L_Text>>
    /\ returned[3].text = <<L_Text, L_Empty>>
    /\ returned[1].width = returned[3].width
    /\ Len(returned[3].blocks) = 2

(* ------------------------------------------------------------------ *)
(* C18                                                                  *)
(* ------------------------------------------------------------------ *)

\* C18: code-block mode and table mode are never active at the same time.
C18_OneMode == ~(codeBlockActive /\ tableActive)

(* ------------------------------------------------------------------ *)
(* C19                                                                  *)
(* ------------------------------------------------------------------ *)

\* the callback is about to run on a line inside a code block
InsideCodeBlock == Stepping /\ codeBlockActive

\* C19: inside a code block, a line closes the block if and only if it is a
\* fence line of the opening fence's character and at least its length; any
\* other line, a fence of the other character or a shorter one included, is
\* appended to the buffer and the block stays open.
C19_ClosingFence ==
    [][InsideCodeBlock =>
          IF ValidCloser(lineIndex, codeBlockStart)
          THEN /\ ~codeBlockActive'
               /\ Len(blocks') = Len(blocks) + 1
               /\ LastOf(blocks').type = "CodeBlock"
               /\ LastOf(blocks').lines = codeBlockLines
          ELSE /\ codeBlockActive'
               /\ codeBlockLines' = Append(codeBlockLines, Cur)
               /\ codeBlockFence' = codeBlockFence
               /\ blocks' = blocks]_vars

\* a block opened by four backticks holds a fence of three backticks and a
\* fence of tildes as content and is still open
C19_Witness ==
    /\ codeBlockActive
    /\ codeBlockStart = 1
    /\ lineArray[1] = L_Fence4
    /\ codeBlockLines = <<L_Fence3, L_Tilde3>>

(* ------------------------------------------------------------------ *)
(* C20                                                                  *)
(* ------------------------------------------------------------------ *)

\* the callback is about to run on a blank line with neither mode active
NormalBlank == Stepping /\ ~codeBlockActive /\ ~tableActive /\ IsBlank(Cur)

\* the last emitted block is a Spacer
AfterSpacer == blocks # <<>> /\ LastOf(blocks).type = "Spacer"

\* C20 as stated: a blank line met in Normal state emits a Spacer unless the
\* immediately preceding emitted block is a Spacer, the only case in which it
\* emits nothing.
C20_BlankRuleAsStated ==
    [][NormalBlank =>
          IF AfterSpacer
          THEN blocks' = blocks
          ELSE blocks' = Append(blocks, Spacer(lineIndex))]_vars

\* C20 amended: a blank line met in Normal state emits a Spacer unless no
\* block has been emitted yet or the immediately preceding emitted block is a
\* Spacer; in those two cases, and only in them, it emits nothing.
C20_BlankRule ==
    [][NormalBlank =>
          IF blocks = <<>> \/ AfterSpacer
          THEN blocks' = blocks
          ELSE blocks' = Append(blocks, Spacer(lineIndex))]_vars

\* two blank lines after a paragraph gave one Spacer, and the blank line
\* before the paragraph gave none
C20_Witness ==
    /\ lineArray = <<L_Empty, L_Text, L_Spaces, L_Empty>>
    /\ pc = "done"
    /\ Len(blocks) = 2
    /\ blocks[1].type = "Paragraph"
    /\ blocks[2].type = "Spacer"
    /\ blocks[2].src = 3

(* ------------------------------------------------------------------ *)
(* C21                                                                  *)
(* ------------------------------------------------------------------ *)

L_RuleDashes == <<"-", " ", "-", " ", "-">>
L_RuleStars == <<"*", " ", "*", " ", "*">>

\* lines of every Normal-state kind, with rules that also read as list items
PriorityPool ==
    {L_Empty, L_Text, L_H1, L_RuleDashes, L_RuleStars, L_Ul, L_Ol, L_RowAB, L_Sep, L_Fence3}

InitPriority == InitWith(PriorityPool)
SpecPriority == InitPriority /\ [][Next]_vars

\* a line is met with neither a code block nor a table active
NormalLine == Stepping /\ ~codeBlockActive /\ ~tableActive

\* the first rule the line satisfies, in the order code fence, table row with
\* separator lookahead, header, horizontal rule, unordered list item, ordered
\* list item, blank line, paragraph
FirstRule ==
    IF fenceMatch(Cur).ok THEN "fence"
    ELSE IF tableRowMatch(Cur).ok /\ SeparatorFollows THEN "table"
    ELSE IF headerMatch(Cur).ok THEN "header"
    ELSE IF hrMatch(Cur) THEN "rule"
    ELSE IF ulMatch(Cur).ok THEN "ul"
    ELSE IF olMatch(Cur).ok THEN "ol"
    ELSE IF IsBlank(Cur) THEN "blank"
    ELSE "paragraph"

\* the step emitted exactly the block b
Emitted(b) ==
    /\ blocks' = Append(blocks, b)
    /\ ~codeBlockActive'
    /\ ~tableActive'

\* C21: a line met in Normal state is classified by the first rule it
\* satisfies in the order code fence, table row with separator lookahead,
\* header, horizontal rule, unordered list item, ordered list item, blank
\* line, paragraph; the lines - - - and * * * yield a HorizontalRule and never
\* a ListItem; no line matches both the header and the rule pattern, so the
\* order in which those two are tested changes nothing.
C21_Priority ==
    /\ [][NormalLine =>
            CASE FirstRule = "fence" ->
                     codeBlockActive' /\ ~tableActive' /\ blocks' = blocks
              [] FirstRule = "table" ->
                     tableActive' /\ ~codeBlockActive' /\ blocks' = blocks
              [] FirstRule = "header" ->
                     Emitted(Header(lineIndex, Len(headerMatch(Cur).g1), headerMatch(Cur).g2))
              [] FirstRule = "rule" ->
                     Emitted(HorizontalRule(lineIndex, RuleCount(terminalWidth)))
              [] FirstRule = "ul" ->
                     Emitted(BuildListItem(lineIndex, ulMatch(Cur).g3, "ul",
                                           ulMatch(Cur).g2, ulMatch(Cur).g1))
              [] FirstRule = "ol" ->
                     Emitted(BuildListItem(lineIndex, olMatch(Cur).g3, "ol",
                                           olMatch(Cur).g2, olMatch(Cur).g1))
              [] FirstRule = "blank" ->
                     /\ blocks' \in {blocks, Append(blocks, Spacer(lineIndex))}
                     /\ ~codeBlockActive'
                     /\ ~tableActive'
              [] FirstRule = "paragraph" ->
                     Emitted(Paragraph(lineIndex, Cur))]_vars
    /\ [][NormalLine /\ Cur \in {L_RuleDashes, L_RuleStars} =>
            /\ Len(blocks') = Len(blocks) + 1
            /\ LastOf(blocks').type = "HorizontalRule"]_vars
    /\ [](\A i \in 1..Len(lineArray) :
            ~(headerMatch(lineArray[i]).ok /\ hrMatch(lineArray[i])))

\* both spaced rules were read as rules, next to a real list item
C21_Witness ==
    /\ lineArray = <<L_RuleDashes, L_Ul, L_RuleStars>>
    /\ pc = "done"
    /\ Len(blocks) = 3
    /\ blocks[1].type = "HorizontalRule"
    /\ blocks[2].type = "ListItem"
    /\ blocks[3].type = "HorizontalRule"

(* ------------------------------------------------------------------ *)
(* C26                                                                  *)
(* ------------------------------------------------------------------ *)

\* C26: the output never holds two adjacent Spacers and never begins with a
\* Spacer, at any point of the call and so in the sequence returned.
C26_SpacerPlacement ==
    /\ blocks # <<>> => blocks[1].type # "Spacer"
    /\ \A p \in Positions :
          p < Len(blocks) => ~(blocks[p].type = "Spacer" /\ blocks[p + 1].type = "Spacer")

\* blank lines before the first block gave nothing and two blank lines between
\* two paragraphs gave one Spacer
C26_Witness ==
    /\ lineArray = <<L_Spaces, L_Text, L_Empty, L_Spaces>>
    /\ lineIndex = 5
    /\ Len(blocks) = 2
    /\ blocks[1].type = "Paragraph"
    /\ blocks[2].type = "Spacer"
    /\ previousLineWasEmpty

(* ------------------------------------------------------------------ *)
(* C27                                                                  *)
(* ------------------------------------------------------------------ *)

MaxBlanks == 3

\* a table of one or two data rows
TableHeads == {<<L_RowAB, L_Sep, L_Row12>>, <<L_RowAB, L_Sep, L_Row12, L_Row1>>}

\* 0..n blank lines of both kinds
BlankRuns(n) == UNION {[1..k -> {L_Empty, L_Spaces}] : k \in 0..n}

\* a table, then 0..MaxBlanks blank lines, then a paragraph line
AfterTableTexts ==
    {EmptyText} \cup
    {h \o b \o <<t>> : h \in TableHeads, b \in BlankRuns(MaxBlanks), t \in {L_Text, L_Bold}}

InitAfterTable == InitCall(AfterTableTexts, {DefaultWidth})
SpecAfterTable == InitAfterTable /\ [][Next]_vars

\* the number of blank lines of the text
BlankLines == Cardinality({i \in 1..Len(lineArray) : IsBlank(lineArray[i])})

\* the types of the blocks, in order
Types(bs) == [p \in 1..Len(bs) |-> bs[p].type]

\* C27: N >= 1 consecutive blank lines between the last data row of a table
\* and a following paragraph line yield exactly one Spacer between the Table
\* and the Paragraph.
C27_SpacerAfterTable ==
    pc = "done" /\ lineArray # EmptyText /\ BlankLines >= 1
        => Types(blocks) = <<"Table", "Spacer", "Paragraph">>

(* ------------------------------------------------------------------ *)
(* C30                                                                  *)
(* ------------------------------------------------------------------ *)

\* inside a code block, a fence line of the opening fence's character and at
\* least its length that carries a language word
ClosingFenceWithLanguage ==
    /\ InsideCodeBlock
    /\ fenceMatch(Cur).ok
    /\ fenceMatch(Cur).g2 # <<>>
    /\ fenceMatch(Cur).g1[1] = codeBlockFence[1]
    /\ Len(fenceMatch(Cur).g1) >= Len(codeBlockFence)

\* C30: inside a code block, a fence line of the opening fence's character
\* and at least its length closes the block even when a language word follows
\* the fence: the block is emitted with the buffer as it was and the opening
\* fence's language, the line is not added to the buffer, no new block is
\* opened, and the line's language word is kept nowhere.
C30_ClosingFenceLanguage ==
    [][ClosingFenceWithLanguage =>
          /\ ~codeBlockActive'
          /\ blocks' = Append(blocks, LastOf(blocks'))
          /\ LastOf(blocks').type = "CodeBlock"
          /\ LastOf(blocks').lines = codeBlockLines
          /\ LastOf(blocks').language = codeBlockLanguage
          /\ codeBlockLines' = <<>>
          /\ codeBlockLanguage' = <<>>
          /\ codeBlockFence' = <<>>
          /\ opened' = opened]_vars

\* a block opened by three backticks was closed by three backticks followed
\* by js, and the line after it is a paragraph
C30_Witness ==
    /\ lineArray = <<L_Fence3, L_Bold, L_FenceJs, L_Bold>>
    /\ pc = "done"
    /\ Len(blocks) = 2
    /\ blocks[1].type = "CodeBlock"
    /\ blocks[1].lines = <<L_Bold>>
    /\ blocks[1].language = <<>>
    /\ blocks[2].type = "Paragraph"
    /\ opened = {1}

(* ------------------------------------------------------------------ *)
(* C25                                                                  *)
(* ------------------------------------------------------------------ *)

\* the match the scan loop is about to run on
Candidate == exec(content, lastIndex)

\* the scan loop is about to run on a match that no handler formats
LiteralCandidate(m) ==
    /\ ipc = "scan"
    /\ QuickCheck(content)
    /\ m.found
    /\ FormatMatch(content, m.index, m.lastIndex).kind = "Literal"

\* C25: the tokenizer terminates on every input: each turn of the scan loop
\* consumes at least one character (the scan position strictly increases and
\* stays within the text, no match is empty), a candidate that fails to
\* format is emitted as literal text with the scan continuing after it, and
\* the function returns.
C25_Terminates ==
    /\ [][ipc = "scan" /\ ipc' = "scan" =>
            /\ lastIndex' > lastIndex
            /\ currentPosition' > currentPosition
            /\ lastIndex' <= Len(content)
            /\ LastOf(elements').raw # <<>>]_vars
    /\ [][LET m == Candidate
          IN  LiteralCandidate(m) =>
                /\ ipc' = "scan"
                /\ LastOf(elements').kind = "Literal"
                /\ LastOf(elements').text = SubSeq(content, m.index + 1, m.lastIndex)
                /\ currentPosition' = m.lastIndex]_vars
    /\ <>(ipc = "done")

\* two candidates in a row failed to format, each was emitted as literal text
\* and the function returned
C25_Witness ==
    /\ content = <<"*", "*", "_", "_">>
    /\ ipc = "done"
    /\ Len(elements) = 2
    /\ elements[1].kind = "Literal"
    /\ elements[1].text = <<"*", "*">>
    /\ elements[2].kind = "Literal"
    /\ elements[2].text = <<"_", "_">>

(* ------------------------------------------------------------------ *)
(* C24                                                                  *)
(* ------------------------------------------------------------------ *)

\* the lengths of the runs of backticks that open and close a text
OpeningRun(t) == SkipWhile(t, 1, {Backtick}) - 1
ClosingRun(t) == Len(t) - SkipBack(t, Len(t), {Backtick})

\* C24: a Code span stands only for a run of N backticks, content, and a
\* closing run of exactly N backticks, and shows the content without any of
\* the delimiter backticks; a candidate whose runs differ in length is left
\* as literal text.
C24_CodeDelimiters ==
    \A p \in 1..Len(elements) :
        elements[p].kind = "Code" =>
            /\ OpeningRun(elements[p].raw) = ClosingRun(elements[p].raw)
            /\ 2 * OpeningRun(elements[p].raw) < Len(elements[p].raw)
            /\ elements[p].text =
                  slice(elements[p].raw, OpeningRun(elements[p].raw),
                        OpeningRun(elements[p].raw))

(* ------------------------------------------------------------------ *)
(* C28                                                                  *)
(* ------------------------------------------------------------------ *)

P_Snake == <<"a", "_", "b">>
P_Em == <<"_", "e", "_">>

\* identifiers with an underscore and emphasised words among letters and blanks
UnderscorePool == {P_Snake, P_Em, P_A, P_Space, UnderscoreMark}

InitUnderscore == InitInlineWith(Phrases(UnderscorePool, MaxPieces))
SpecUnderscore == InitUnderscore /\ [][NextInline]_vars

\* positions i < j of content hold a run _x_: two underscores with a
\* non-empty x free of underscores between them, no word character right
\* before the opener and none right after the closer
WellFormedRun(i, j) ==
    /\ content[i] = "_"
    /\ content[j] = "_"
    /\ j > i + 1
    /\ \A k \in (i + 1)..(j - 1) : content[k] # "_"
    /\ CharAt(content, i - 1) \notin WordChars
    /\ CharAt(content, j + 1) \notin WordChars

\* C28: every well-formed run _x_ of the line is tokenized as Italic(x),
\* whatever stands earlier in the line, an identifier with an underscore
\* included.
C28_EveryRunItalic ==
    Tokenized =>
        \A i, j \in 1..Len(content) :
            i < j /\ WellFormedRun(i, j) =>
                \E p \in 1..Len(elements) :
                    /\ elements[p].kind = "Italic"
                    /\ elements[p].at = i - 1
                    /\ elements[p].text = SubSeq(content, i + 1, j - 1)

(* ------------------------------------------------------------------ *)
(* C22                                                                  *)
(* ------------------------------------------------------------------ *)

MaxLayoutWidth == 32

\* cells without markers: short ones, long ones, one of wide glyphs
LayoutPool ==
    {<<"a", "b">>, repeat("a", 17), repeat("a", 20),
     <<"U+AC00", "U+4E2D", "U+3042", "U+FF00">>}

\* tables of up to MaxColumns columns and one data row of cells without
\* markers, at every maxWidth up to MaxLayoutWidth
InitLayout ==
    /\ RenderIdle
    /\ InlineIdle
    /\ call \in UNION {
           {Called("BuildTable", [columnHeaders |-> h, dataRows |-> <<r>>, maxWidth |-> w]) :
                h \in [1..k -> LayoutPool], r \in [1..k -> LayoutPool],
                w \in 1..MaxLayoutWidth} :
           k \in 1..MaxColumns}

SpecLayout == InitLayout /\ [][NextTable]_vars

\* the sum of the numbers of a sequence
RECURSIVE Sum(_)
Sum(ws) == IF ws = <<>> THEN 0 ELSE Head(ws) + Sum(Tail(ws))

\* the largest of the display widths of column c over the data rows
RECURSIVE WidestCell(_, _)
WidestCell(rows, c) ==
    IF rows = <<>> THEN 0
    ELSE Max2(DisplayWidth(CellAt(Head(rows), c)), WidestCell(Tail(rows), c))

\* the desired width of every column of the table rendered
Desired ==
    [c \in 1..Len(call.args.columnHeaders) |->
        Max2(DisplayWidth(call.args.columnHeaders[c]),
             WidestCell(call.args.dataRows, c)) + 2]

\* the sum of the desired widths plus (columns + 1)
Required == Sum(Desired) + Len(call.args.columnHeaders) + 1

\* C22: the desired width of a column is the larger of the display widths of
\* its header and of its widest data cell, plus 2; the required width is the
\* sum of the desired widths plus (columns + 1). If required <= available,
\* every final width is its desired width; otherwise every final width is
\* floor(desired * available / required), hence at most its desired width.
C22_ColumnWidths ==
    TableRendered =>
        \A c \in 1..Len(call.args.columnHeaders) :
            /\ call.ret.finalWidths[c] =
                  IF Required <= call.args.maxWidth
                  THEN Desired[c]
                  ELSE (Desired[c] * call.args.maxWidth) \div Required
            /\ call.ret.finalWidths[c] <= Desired[c]

(* ------------------------------------------------------------------ *)
(* C29                                                                  *)
(* ------------------------------------------------------------------ *)

\* C29: every line of a rendered table, the header row and the data rows as
\* well as the top, middle and bottom borders, has the same display width:
\* the sum of the final column widths plus (columns + 1).
C29_LinesAlign ==
    TableRendered =>
        \A k \in 1..Len(call.ret.lines) :
            DisplayWidth(call.ret.lines[k]) =
                Sum(call.ret.finalWidths) + Len(call.ret.finalWidths) + 1

(* ------------------------------------------------------------------ *)
(* C23                                                                  *)
(* ------------------------------------------------------------------ *)

\* cell texts with markers of emphasis and code, a link, letters and blanks,
\* and the identifier file_name_here
AgreePool == {StarMark, UnderscoreMark, CodeMark, P_A, P_Space, P_Link}

InitAgree ==
    /\ RenderIdle
    /\ InlineIdle
    /\ call \in {Called("calculateTextWidth", t) :
                    t \in Phrases(AgreePool, MaxPieces) \cup {T_FileName}}

SpecAgree == InitAgree /\ [][NextMeasure]_vars

\* the label of a link [label](url)
LinkLabel(raw) == SubSeq(raw, 2, Find(raw, LinkMiddle, 2) - 1)

\* the columns of what the tokenizer shows, a link counted as its label
RECURSIVE ShownWidth(_)
ShownWidth(els) ==
    IF els = <<>> THEN 0
    ELSE DisplayWidth(IF Head(els).kind = "Link" THEN LinkLabel(Head(els).raw)
                      ELSE Head(els).text)
         + ShownWidth(Tail(els))

\* C23: the width measured for a text is the display width of what the
\* tokenizer shows of it, a link counted as its label: the markers the
\* tokenizer strips are not counted, the text around a link and the markers
\* the tokenizer leaves literal are.
C23_WidthAgrees ==
    Measured => call.ret = ShownWidth(ProcessInlineText(call.args))

====
